---- MODULE Spec2Model ----
(***************************************************************************)
(* Verification model of the two algorithmic components of PlasmidLLM:     *)
(*   - the insert/backbone region partitioner of                           *)
(*     src/plasmid_pretraining/annotators.py (annotate_record and the      *)
(*     three functions it calls), and                                      *)
(*   - the sequence QC / synthesis-risk scorer of nextflow/bin/seq_qc.py.  *)
(*                                                                         *)
(* Python values are modelled as follows.                                  *)
(*   str            a sequence of one-character strings                    *)
(*   list           a sequence                                             *)
(*   dict           a record; a missing key is a field outside DOMAIN      *)
(*   index i        Python positions are 0-based, TLA+ sequences 1-based:  *)
(*                  Python s[i] is s[i + 1] here                           *)
(*   float          confidences are kept in tenths (0.8 is 8), penalties   *)
(*                  and scores in hundredths (0.15 is 15), ratios as a     *)
(*                  pair [num, den] compared by cross-multiplication       *)
(*   exception      the name of the exception in a "raised" field or       *)
(*                  variable, "" when nothing was raised                   *)
(***************************************************************************)
EXTENDS Integers, Sequences, FiniteSets, TLC

VARIABLES
    pc,          \* position of annotate_record: "start" | "done" | "failed"
    record,      \* the record annotate_record is given
    plasmid,     \* the dict annotate_record returns (asdict of AnnotatedPlasmid)
    raised,      \* the exception annotate_record lets escape, "" if none
    backbone_sequence, \* the local "backbone" of training.create_training_pair
    qc_pc,       \* position of seq_qc.main: "start" | "done" | "failed"
    qc_sequence, \* record.seq of the FASTA record seq_qc.main read
    qc_result,   \* the result dict seq_qc.main built, or the exception it let escape
    risk_pc,     \* position of a call of calculate_synthesis_risk
    risk_args,   \* the arguments of the call
    risk_out,    \* (score, reasons) the call returned, or the exception it raised
    flow_pc,     \* for each batch, the step of DataCleaningFlow its task is at
    force_reprocess, \* settings.force_reprocess
    parsed_out,      \* for each batch, its file in parsed_dir: "absent", or the run
                     \* whose parse its content comes from, "previous" | "current"
    annotated_out,   \* its file in annotated_dir, likewise
    processed_out,   \* its file in processed_dir, likewise
    ran,             \* for each batch, the steps of this run that did their work
    result_info      \* for each batch, self.result_info of its task

pk_vars == <<pc, record, plasmid, raised, backbone_sequence>>

qc_vars == <<qc_pc, qc_sequence, qc_result>>

risk_vars == <<risk_pc, risk_args, risk_out>>

flow_vars == <<flow_pc, force_reprocess, parsed_out, annotated_out, processed_out,
               ran, result_info>>

vars == <<pk_vars, qc_vars, risk_vars, flow_vars>>

(***************************************************************************)
(* Bounds of the model.                                                    *)
(***************************************************************************)
\* Longest feature list PlasmidKit returns in the model.
MaxFeatures == 2
\* Longest text the QC sequences are built from.
MaxUnitLen == 2
\* Number of batches shard_files creates.
MaxBatches == 2
\* Most blocks a measured sequence is put together from.
MaxBlocks == 3

(***************************************************************************)
(* Python helpers.                                                         *)
(***************************************************************************)
Min(a, b) == IF a < b THEN a ELSE b
Max(a, b) == IF a > b THEN a ELSE b

\* dict.get(key, default)
Get(d, key, default) == IF key \in DOMAIN d THEN d[key] ELSE default

\* s[:k] for a str or list s
SliceTo(s, k) ==
    IF k >= 0 THEN SubSeq(s, 1, Min(k, Len(s)))
    ELSE SubSeq(s, 1, Max(0, Len(s) + k))

\* s[k:] for a str or list s
SliceFrom(s, k) ==
    IF k >= 0 THEN SubSeq(s, Min(k, Len(s)) + 1, Len(s))
    ELSE SubSeq(s, Max(0, Len(s) + k) + 1, Len(s))

\* s[a:b] for a str or list s and 0 <= a, 0 <= b
Slice(s, a, b) == SubSeq(s, Min(a, Len(s)) + 1, Min(b, Len(s)))

\* range(a, b)
Range(a, b) == a .. (b - 1)

\* The position a list of length n really accesses for index i (negative
\* indices count from the end), and whether the access raises IndexError.
ListIndex(i, n) == IF i < 0 THEN i + n ELSE i
IndexError(i, n) == i >= n \/ i < -n

\* key=lambda x: x.get("start", 0) for a feature dict, lambda r: r.start for a
\* region (a region always has its start)
StartKey(x) == Get(x, "start", 0)

\* sorted(xs, key=StartKey): stable insertion sort.
RECURSIVE InsertByStart(_, _)
InsertByStart(x, xs) ==
    IF xs = <<>> THEN <<x>>
    ELSE IF StartKey(x) < StartKey(Head(xs)) THEN <<x>> \o xs
    ELSE <<Head(xs)>> \o InsertByStart(x, Tail(xs))

RECURSIVE SortedByStart(_)
SortedByStart(xs) ==
    IF xs = <<>> THEN <<>>
    ELSE InsertByStart(xs[Len(xs)], SortedByStart(SubSeq(xs, 1, Len(xs) - 1)))

\* sorted(xs, key=StartKey, reverse=True): descending, equal keys keep their order.
RECURSIVE InsertByStartDesc(_, _)
InsertByStartDesc(x, xs) ==
    IF xs = <<>> THEN <<x>>
    ELSE IF StartKey(x) > StartKey(Head(xs)) THEN <<x>> \o xs
    ELSE <<Head(xs)>> \o InsertByStartDesc(x, Tail(xs))

RECURSIVE SortedByStartDesc(_)
SortedByStartDesc(xs) ==
    IF xs = <<>> THEN <<>>
    ELSE InsertByStartDesc(xs[Len(xs)], SortedByStartDesc(SubSeq(xs, 1, Len(xs) - 1)))

\* str(n) for n >= 0, as a sequence of characters
DigitChar(d) == <<"0", "1", "2", "3", "4", "5", "6", "7", "8", "9">>[d + 1]
RECURSIVE IntToStr(_)
IntToStr(n) ==
    IF n < 10 THEN <<DigitChar(n)>>
    ELSE IntToStr(n \div 10) \o <<DigitChar(n % 10)>>

(***************************************************************************)
(* annotators.py: identify_insert_regions_pk                               *)
(***************************************************************************)
backbone_types == {"rep_origin", "marker", "promoter", "terminator"}

min_gap_size == 300

\* InsertRegion(start=..., end=..., length=..., insert_type="gap_in_backbone",
\*              confidence=0.7, features_included=["unknown_cargo"])
InsertRegion(start, end, length) ==
    [start |-> start, end |-> end, length |-> length,
     insert_type |-> "gap_in_backbone", confidence |-> 7,
     features_included |-> <<"unknown_cargo">>]

\* Mutant of BackboneFeats: no filter on the type, every feature counts as backbone.
BackboneFeatsUnfiltered(feats) == feats

\* backbone_feats = [f for f in pk_features if f.get("type") in backbone_types]
BackboneFeats(feats) ==
    SelectSeq(feats, LAMBDA f : Get(f, "type", "None") \in backbone_types)

\* Mutant of ClipStart: the start is used as given, without max(0, ...).
ClipStartUnclipped(f, seq_len) == Get(f, "start", 0)

\* start = max(0, f.get("start", 0)); end = min(seq_len, f.get("end", 0))
ClipStart(f, seq_len) == Max(0, Get(f, "start", 0))
ClipEnd(f, seq_len) == Min(seq_len, Get(f, "end", 0))

\* The indices i of "is_backbone[i] = True" executed for feature f.
MarkIndices(f, seq_len) == Range(ClipStart(f, seq_len), ClipEnd(f, seq_len))

\* Every index the marking loop executes "is_backbone[i] = True" for.
MarkedIndices(backbone_feats, seq_len) ==
    UNION { MarkIndices(backbone_feats[k], seq_len) : k \in 1..Len(backbone_feats) }

\* Does some "is_backbone[i] = True" raise IndexError?
MarkRaises(backbone_feats, seq_len) ==
    \E i \in MarkedIndices(backbone_feats, seq_len) : IndexError(i, seq_len)

\* Mutant of IsBackbone: marking toggles the flag ("is_backbone[i] = not
\* is_backbone[i]"), so a position marked an even number of times ends False.
IsBackboneToggled(backbone_feats, seq_len) ==
    { i \in Range(0, seq_len) :
        Cardinality({ k \in 1..Len(backbone_feats) :
                        i \in MarkIndices(backbone_feats[k], seq_len) }) % 2 = 1 }

\* is_backbone after the marking loop, as the set of positions that are True:
\* the positions accessed with an index i >= 0 and those accessed with i < 0.
IsBackbone(backbone_feats, seq_len) ==
    LET marked == MarkedIndices(backbone_feats, seq_len)
    IN  (marked \cap Range(0, seq_len))
        \cup { ListIndex(i, seq_len) : i \in marked \cap Range(-seq_len, 0) }

\* The first position j in range(i, seq_len) with is_backbone[j] = value, or
\* seq_len when there is none.
NextWhere(is_backbone, i, seq_len, value) ==
    LET found == IF value THEN is_backbone \cap Range(i, seq_len)
                 ELSE Range(i, seq_len) \ is_backbone
    IN  IF found = {} THEN seq_len
        ELSE CHOOSE j \in found : \A m \in found : j <= m

\* Mutant of ScanGaps: a run is kept only when it is longer than min_gap_size.
RECURSIVE ScanGapsStrict(_, _, _)
ScanGapsStrict(i, is_backbone, seq_len) ==
    IF i >= seq_len THEN [regions |-> <<>>, current_start |-> -1]
    ELSE IF i \in is_backbone
    THEN ScanGapsStrict(NextWhere(is_backbone, i, seq_len, FALSE), is_backbone, seq_len)
    ELSE LET e == NextWhere(is_backbone, i, seq_len, TRUE)
         IN  IF e = seq_len THEN [regions |-> <<>>, current_start |-> i]
             ELSE LET length == e - i
                      rest == ScanGapsStrict(e, is_backbone, seq_len)
                  IN  [regions |->
                          (IF length > min_gap_size
                           THEN <<InsertRegion(i, e, length)>> ELSE <<>>)
                          \o rest.regions,
                       current_start |-> rest.current_start]

\* The scan "for i in range(seq_len)" from position i with current_start = -1:
\* the regions appended inside the loop, and current_start when the loop ends.
\* The loop changes state only where is_backbone changes, so the scan moves
\* from one change to the next.
RECURSIVE ScanGaps(_, _, _)
ScanGaps(i, is_backbone, seq_len) ==
    IF i >= seq_len THEN [regions |-> <<>>, current_start |-> -1]
    ELSE IF i \in is_backbone
    THEN ScanGaps(NextWhere(is_backbone, i, seq_len, FALSE), is_backbone, seq_len)
    ELSE LET e == NextWhere(is_backbone, i, seq_len, TRUE)
         IN  IF e = seq_len THEN [regions |-> <<>>, current_start |-> i]
             ELSE LET length == e - i
                      rest == ScanGaps(e, is_backbone, seq_len)
                  IN  [regions |->
                          (IF length >= min_gap_size
                           THEN <<InsertRegion(i, e, length)>> ELSE <<>>)
                          \o rest.regions,
                       current_start |-> rest.current_start]

\* Mutant of TrailingGap: the run still open when the scan ends is dropped.
TrailingGapDropped(current_start, seq_len) == <<>>

\* Mutant of TrailingGap: the trailing run is appended whatever its length.
TrailingGapUnchecked(current_start, seq_len) ==
    IF current_start /= -1
    THEN <<InsertRegion(current_start, seq_len, seq_len - current_start)>>
    ELSE <<>>

\* "Check trailing gap"
TrailingGap(current_start, seq_len) ==
    IF current_start /= -1
    THEN LET length == seq_len - current_start
         IN  IF length >= min_gap_size
             THEN <<InsertRegion(current_start, seq_len, length)>>
             ELSE <<>>
    ELSE <<>>

\* Mutant of identify_insert_regions_pk: the missing-backbone test comes before
\* the empty-sequence test.
identify_insert_regions_pk_tests_swapped(seq, feats) ==
    LET seq_len == Len(seq)
        backbone_feats == SortedByStart(BackboneFeats(feats))
    IN  IF backbone_feats = <<>>
        THEN [regions |-> <<>>, confidence |-> 0, method |-> "pk_no_backbone",
              raised |-> ""]
        ELSE IF seq_len = 0
        THEN [regions |-> <<>>, confidence |-> 0, method |-> "pk_empty", raised |-> ""]
        ELSE IF MarkRaises(backbone_feats, seq_len)
        THEN [regions |-> <<>>, confidence |-> 0, method |-> "", raised |-> "IndexError"]
        ELSE LET scan == ScanGaps(0, IsBackbone(backbone_feats, seq_len), seq_len)
             IN  [regions |-> scan.regions \o TrailingGap(scan.current_start, seq_len),
                  confidence |-> 8, method |-> "plasmid_kit_gap", raised |-> ""]

\* Mutant of identify_insert_regions_pk: the sequence is scanned as a circle, the
\* run open at the end of the scan is joined with the run that starts at 0.
identify_insert_regions_pk_circular(seq, feats) ==
    LET seq_len == Len(seq)
        backbone_feats == SortedByStart(BackboneFeats(feats))
    IN  IF seq_len = 0
        THEN [regions |-> <<>>, confidence |-> 0, method |-> "pk_empty", raised |-> ""]
        ELSE IF backbone_feats = <<>>
        THEN [regions |-> <<>>, confidence |-> 0, method |-> "pk_no_backbone",
              raised |-> ""]
        ELSE IF MarkRaises(backbone_feats, seq_len)
        THEN [regions |-> <<>>, confidence |-> 0, method |-> "", raised |-> "IndexError"]
        ELSE LET is_backbone == IsBackbone(backbone_feats, seq_len)
                 scan == ScanGaps(0, is_backbone, seq_len)
                 head == NextWhere(is_backbone, 0, seq_len, TRUE)
                 joined == scan.current_start > 0 /\ head > 0
                 inner == IF joined /\ head >= min_gap_size
                          THEN Tail(scan.regions) ELSE scan.regions
                 length == (seq_len - scan.current_start) + head
             IN  [regions |->
                     IF joined
                     THEN inner \o (IF length >= min_gap_size
                                    THEN <<InsertRegion(scan.current_start, head, length)>>
                                    ELSE <<>>)
                     ELSE scan.regions \o TrailingGap(scan.current_start, seq_len),
                  confidence |-> 8, method |-> "plasmid_kit_gap", raised |-> ""]

\* identify_insert_regions_pk(sequence, pk_features)
\*   -> (insert_regions, confidence, method), or an exception
\* Mutant of identify_insert_regions_pk: confidence 0.0 when no gap is found.
identify_insert_regions_pk_unsure(seq, feats) ==
    LET seq_len == Len(seq)
        backbone_feats == SortedByStart(BackboneFeats(feats))
    IN  IF seq_len = 0
        THEN [regions |-> <<>>, confidence |-> 0, method |-> "pk_empty", raised |-> ""]
        ELSE IF backbone_feats = <<>>
        THEN [regions |-> <<>>, confidence |-> 0, method |-> "pk_no_backbone",
              raised |-> ""]
        ELSE IF MarkRaises(backbone_feats, seq_len)
        THEN [regions |-> <<>>, confidence |-> 0, method |-> "", raised |-> "IndexError"]
        ELSE LET scan == ScanGaps(0, IsBackbone(backbone_feats, seq_len), seq_len)
                 regions == scan.regions \o TrailingGap(scan.current_start, seq_len)
             IN  [regions |-> regions,
                  confidence |-> IF regions = <<>> THEN 0 ELSE 8,
                  method |-> "plasmid_kit_gap", raised |-> ""]

\* Mutant of identify_insert_regions_pk: backbone features that cover no position
\* count as no backbone.
identify_insert_regions_pk_needs_coverage(seq, feats) ==
    LET seq_len == Len(seq)
        backbone_feats == SortedByStart(BackboneFeats(feats))
    IN  IF seq_len = 0
        THEN [regions |-> <<>>, confidence |-> 0, method |-> "pk_empty", raised |-> ""]
        ELSE IF backbone_feats = <<>> \/ MarkedIndices(backbone_feats, seq_len) = {}
        THEN [regions |-> <<>>, confidence |-> 0, method |-> "pk_no_backbone",
              raised |-> ""]
        ELSE IF MarkRaises(backbone_feats, seq_len)
        THEN [regions |-> <<>>, confidence |-> 0, method |-> "", raised |-> "IndexError"]
        ELSE LET scan == ScanGaps(0, IsBackbone(backbone_feats, seq_len), seq_len)
             IN  [regions |-> scan.regions \o TrailingGap(scan.current_start, seq_len),
                  confidence |-> 8, method |-> "plasmid_kit_gap", raised |-> ""]

identify_insert_regions_pk(seq, feats) ==
    LET seq_len == Len(seq)
        backbone_feats == SortedByStart(BackboneFeats(feats))
    IN  IF seq_len = 0
        THEN [regions |-> <<>>, confidence |-> 0, method |-> "pk_empty", raised |-> ""]
        ELSE IF backbone_feats = <<>>
        THEN [regions |-> <<>>, confidence |-> 0, method |-> "pk_no_backbone",
              raised |-> ""]
        ELSE IF MarkRaises(backbone_feats, seq_len)
        THEN [regions |-> <<>>, confidence |-> 0, method |-> "", raised |-> "IndexError"]
        ELSE LET scan == ScanGaps(0, IsBackbone(backbone_feats, seq_len), seq_len)
             IN  [regions |-> scan.regions \o TrailingGap(scan.current_start, seq_len),
                  confidence |-> 8, method |-> "plasmid_kit_gap", raised |-> ""]

(***************************************************************************)
(* annotators.py: calculate_backbone_regions                               *)
(***************************************************************************)
BackboneRegion(start, end) ==
    [start |-> start, end |-> end, length |-> end - start, type |-> "backbone"]

\* Mutant of BackboneLoop: the test is "r.start >= cursor", so a gap of no length
\* is appended too.
RECURSIVE BackboneLoopZeroLength(_, _)
BackboneLoopZeroLength(inserts, cursor) ==
    IF inserts = <<>> THEN [backbone |-> <<>>, cursor |-> cursor]
    ELSE LET r == Head(inserts)
             rest == BackboneLoopZeroLength(Tail(inserts), Max(cursor, r.end))
         IN  [backbone |->
                 (IF r.start >= cursor THEN <<BackboneRegion(cursor, r.start)>> ELSE <<>>)
                 \o rest.backbone,
              cursor |-> rest.cursor]

\* The loop "for r in inserts" from cursor: the regions appended, and the cursor
\* when the loop ends.
RECURSIVE BackboneLoop(_, _)
BackboneLoop(inserts, cursor) ==
    IF inserts = <<>> THEN [backbone |-> <<>>, cursor |-> cursor]
    ELSE LET r == Head(inserts)
             rest == BackboneLoop(Tail(inserts), Max(cursor, r.end))
         IN  [backbone |->
                 (IF r.start > cursor THEN <<BackboneRegion(cursor, r.start)>> ELSE <<>>)
                 \o rest.backbone,
              cursor |-> rest.cursor]

\* Mutant of calculate_backbone_regions: the backbone after the last insert
\* region is not appended.
calculate_backbone_regions_no_tail(seq_len, regions) ==
    IF seq_len <= 0 THEN <<>>
    ELSE BackboneLoop(SortedByStart(regions), 0).backbone

\* Mutant of calculate_backbone_regions: no early return, and the last region is
\* appended when cursor <= seq_len.
calculate_backbone_regions_inclusive_tail(seq_len, regions) ==
    LET loop == BackboneLoop(SortedByStart(regions), 0)
    IN  loop.backbone \o
        (IF loop.cursor <= seq_len
         THEN <<BackboneRegion(loop.cursor, seq_len)>> ELSE <<>>)

calculate_backbone_regions(seq_len, regions) ==
    IF seq_len <= 0 THEN <<>>
    ELSE LET loop == BackboneLoop(SortedByStart(regions), 0)
         IN  loop.backbone \o
             (IF loop.cursor < seq_len
              THEN <<BackboneRegion(loop.cursor, seq_len)>> ELSE <<>>)

(***************************************************************************)
(* annotators.py: create_annotated_sequence                                *)
(***************************************************************************)
\* f"<INSERT_{idx}>"
InsertToken(idx) ==
    <<"<", "I", "N", "S", "E", "R", "T", "_">> \o IntToStr(idx) \o <<">">>

\* The loop over enumerate(sorted(..., reverse=True), start=1) from index idx.
RECURSIVE AnnotateLoop(_, _, _)
AnnotateLoop(annotated, ordered, idx) ==
    IF ordered = <<>> THEN annotated
    ELSE LET region == Head(ordered)
         IN  AnnotateLoop(SliceTo(annotated, region.start) \o InsertToken(idx)
                              \o SliceFrom(annotated, region.end),
                          Tail(ordered), idx + 1)

\* Mutant of create_annotated_sequence: enumerate() without start=1, the tokens
\* are numbered from 0.
create_annotated_sequence_from_zero(seq, regions) ==
    IF seq = <<>> THEN <<>>
    ELSE IF regions = <<>> THEN seq
    ELSE AnnotateLoop(seq, SortedByStartDesc(regions), 0)

\* Mutant of create_annotated_sequence: the regions are replaced in ascending
\* order of start (reverse=True is missing).
create_annotated_sequence_ascending(seq, regions) ==
    IF seq = <<>> THEN <<>>
    ELSE IF regions = <<>> THEN seq
    ELSE AnnotateLoop(seq, SortedByStart(regions), 1)

create_annotated_sequence(seq, regions) ==
    IF seq = <<>> THEN <<>>
    ELSE IF regions = <<>> THEN seq
    ELSE AnnotateLoop(seq, SortedByStartDesc(regions), 1)

(***************************************************************************)
(* training.py: create_backbone_sequence                                   *)
(***************************************************************************)
PlainToken == <<"<", "I", "N", "S", "E", "R", "T", ">">>

\* The loop over enumerate(sorted_regions) from index i; n = len(sorted_regions)
RECURSIVE BackboneTokenLoop(_, _, _, _)
BackboneTokenLoop(result, sorted_regions, i, n) ==
    IF sorted_regions = <<>> THEN result
    ELSE LET region == Head(sorted_regions)
             start == Get(region, "start", 0)
             end == Get(region, "end", 0)
             token == IF n > 1 THEN InsertToken(n - i) ELSE PlainToken
         IN  BackboneTokenLoop(SliceTo(result, start) \o token \o SliceFrom(result, end),
                               Tail(sorted_regions), i + 1, n)

\* Mutant of create_backbone_sequence: the token is <INSERT_{i + 1}> for every
\* number of regions, as in annotators.create_annotated_sequence.
create_backbone_sequence_as_annotators(rec) ==
    LET sequence == Get(rec, "sequence", <<>>)
        insert_regions == Get(rec, "insert_regions", <<>>)
    IN  IF insert_regions = <<>> THEN sequence
        ELSE AnnotateLoop(sequence, SortedByStartDesc(insert_regions), 1)

create_backbone_sequence(rec) ==
    LET sequence == Get(rec, "sequence", <<>>)
        insert_regions == Get(rec, "insert_regions", <<>>)
    IN  IF insert_regions = <<>> THEN sequence
        ELSE LET sorted_regions == SortedByStartDesc(insert_regions)
             IN  BackboneTokenLoop(sequence, sorted_regions, 0, Len(sorted_regions))

(***************************************************************************)
(* seq_qc.py: values                                                       *)
(***************************************************************************)
\* A float that is the quotient of two integers, den > 0.
Ratio(num, den) == [num |-> num, den |-> den]
RatioGT(r, num, den) == r.num * den > num * r.den      \* r > num/den
RatioLT(r, num, den) == r.num * den < num * r.den      \* r < num/den

\* A value whose Python type decides what an operator does with it.
PyInt(n) == [ty |-> "int", val |-> n]
PyList(xs) == [ty |-> "list", val |-> xs]

\* str.upper() on the symbols the model draws sequences from
UpperChar(c) ==
    CASE c = "a" -> "A" [] c = "c" -> "C" [] c = "g" -> "G" [] c = "t" -> "T"
      [] c = "n" -> "N" [] OTHER -> c
Upper(s) == [i \in 1..Len(s) |-> UpperChar(s[i])]

\* s.count(c) for a one-character c
Count(s, c) == Cardinality({ i \in 1..Len(s) : s[i] = c })

RECURSIVE SumSeq(_)
SumSeq(xs) == IF xs = <<>> THEN 0 ELSE Head(xs) + SumSeq(Tail(xs))

\* max(xs, default=0)
MaxSeq(xs) ==
    IF xs = <<>> THEN 0
    ELSE CHOOSE m \in { xs[i] : i \in 1..Len(xs) } : \A i \in 1..Len(xs) : xs[i] <= m
MinSeq(xs) ==
    CHOOSE m \in { xs[i] : i \in 1..Len(xs) } : \A i \in 1..Len(xs) : m <= xs[i]

\* f"{x:.1%}": percent with one decimal. The quotient is rounded to the nearest
\* tenth of a percent, an exact tie to the even one.
FormatPercent(r) ==
    LET scaled == r.num * 1000
        q == scaled \div r.den
        twice == 2 * (scaled % r.den)
        t == IF twice > r.den \/ (twice = r.den /\ q % 2 = 1) THEN q + 1 ELSE q
    IN  IntToStr(t \div 10) \o <<".">> \o IntToStr(t % 10) \o <<"%">>

(***************************************************************************)
(* seq_qc.py: calculate_gc_content                                         *)
(***************************************************************************)
calculate_gc_content(seq) ==
    IF seq = <<>> THEN Ratio(0, 1)
    ELSE LET up == Upper(seq)
         IN  Ratio(Count(up, "G") + Count(up, "C"), Len(up))

(***************************************************************************)
(* seq_qc.py: find_homopolymers                                            *)
(***************************************************************************)
homopolymer_min_length == 5
positions_limit == 20

\* "while j < len(sequence) and sequence[j] == base: j += 1" from j: the first
\* position from j on where the condition fails
RunEnd(s, j, base) ==
    LET stops == { m \in j..Len(s) : ~(m < Len(s) /\ s[m + 1] = base) }
    IN  CHOOSE m \in stops : \A o \in stops : m <= o

\* Mutant of HomopolymerStep: the test "base not in 'ATCG'" is missing, so a run
\* of any symbol counts.
HomopolymerStepAnyBase(s, st) ==
    IF ~(st.i < Len(s)) THEN st
    ELSE LET i == st.i
             base == s[i + 1]
             j == RunEnd(s, i + 1, base)
             length == j - i
         IN  [i |-> j,
              homopolymers |->
                 IF length >= homopolymer_min_length
                 THEN Append(st.homopolymers,
                             [start |-> i, end |-> j, base |-> base, length |-> length])
                 ELSE st.homopolymers]

\* One iteration of "while i < len(sequence)" on the loop state (i, homopolymers);
\* the state is left alone once the loop has ended.
HomopolymerStep(s, st) ==
    IF ~(st.i < Len(s)) THEN st
    ELSE LET i == st.i
             base == s[i + 1]
         IN  IF base \notin {"A", "T", "C", "G"} THEN [st EXCEPT !.i = i + 1]
             ELSE LET j == RunEnd(s, i + 1, base)
                      length == j - i
                  IN  [i |-> j,
                       homopolymers |->
                          IF length >= homopolymer_min_length
                          THEN Append(st.homopolymers,
                                      [start |-> i, end |-> j, base |-> base,
                                       length |-> length])
                          ELSE st.homopolymers]

\* n iterations of the loop from state st (halved, each half evaluated before
\* the next starts).
RECURSIVE HomopolymerLoop(_, _, _)
HomopolymerLoop(s, st, n) ==
    IF n = 0 THEN st
    ELSE IF n = 1 THEN HomopolymerStep(s, st)
    ELSE CHOOSE r \in { HomopolymerLoop(s, mid, n - (n \div 2))
                        : mid \in {HomopolymerLoop(s, st, n \div 2)} } : TRUE

\* The whole loop: every iteration advances i, so len(sequence) iterations end it.
HomopolymerScan(s) ==
    HomopolymerLoop(s, [i |-> 0, homopolymers |-> <<>>], Len(s)).homopolymers

find_homopolymers(seq) ==
    LET homopolymers == HomopolymerScan(Upper(seq))
        lengths == [k \in 1..Len(homopolymers) |-> homopolymers[k].length]
    IN  [max_length |-> MaxSeq(lengths),
         count |-> Len(homopolymers),
         total_bases |-> SumSeq(lengths),
         positions |-> SliceTo(homopolymers, positions_limit)]

(***************************************************************************)
(* seq_qc.py: find_tandem_repeats                                          *)
(***************************************************************************)
min_unit == 2
max_unit == 10
min_copies == 3

\* "while j + unit_len <= len(sequence) and sequence[j:j+unit_len] == unit" from
\* copies = 1, j = i + unit_len: copies when the loop ends, the first count for
\* which the condition fails
CountCopies(s, unit, unit_len, i) ==
    LET Goes(c) == /\ i + c * unit_len + unit_len <= Len(s)
                   /\ Slice(s, i + c * unit_len, i + c * unit_len + unit_len) = unit
    IN  CHOOSE c \in 1..(Len(s) \div unit_len + 1) :
            ~Goes(c) /\ \A o \in 1..(c - 1) : Goes(o)

\* Mutant of RepeatStep: "i = j" is missing, the scan moves on by one position
\* after a repeat too.
RepeatStepNoSkip(s, unit_len, st) ==
    IF ~(st.i <= Len(s) - unit_len * min_copies) THEN st
    ELSE LET i == st.i
             unit == Slice(s, i, i + unit_len)
             copies == CountCopies(s, unit, unit_len, i)
             j == i + copies * unit_len
         IN  IF copies >= min_copies
             THEN [i |-> i + 1,
                   repeats |-> Append(st.repeats,
                       [start |-> i, end |-> j, unit |-> unit, unit_length |-> unit_len,
                        copies |-> copies, total_length |-> copies * unit_len])]
             ELSE [st EXCEPT !.i = i + 1]

\* One iteration of "while i <= len(sequence) - unit_len * min_copies" on the
\* loop state (i, repeats); the state is left alone once the loop has ended.
RepeatStep(s, unit_len, st) ==
    IF ~(st.i <= Len(s) - unit_len * min_copies) THEN st
    ELSE LET i == st.i
             unit == Slice(s, i, i + unit_len)
             copies == CountCopies(s, unit, unit_len, i)
             j == i + copies * unit_len
         IN  IF copies >= min_copies
             THEN [i |-> j,
                   repeats |-> Append(st.repeats,
                       [start |-> i, end |-> j, unit |-> unit, unit_length |-> unit_len,
                        copies |-> copies, total_length |-> copies * unit_len])]
             ELSE [st EXCEPT !.i = i + 1]

RECURSIVE RepeatLoop(_, _, _, _)
RepeatLoop(s, unit_len, st, n) ==
    IF n = 0 THEN st
    ELSE IF n = 1 THEN RepeatStep(s, unit_len, st)
    ELSE CHOOSE r \in { RepeatLoop(s, unit_len, mid, n - (n \div 2))
                        : mid \in {RepeatLoop(s, unit_len, st, n \div 2)} } : TRUE

\* "for unit_len in range(min_unit, max_unit + 1)" from unit_len with the list
\* repeats: i restarts at 0 for each unit length, and every iteration of the
\* inner loop advances i, so len(sequence) + 1 iterations end it.
RECURSIVE RepeatUnits(_, _, _)
RepeatUnits(s, unit_len, repeats) ==
    IF unit_len > max_unit THEN repeats
    ELSE CHOOSE r \in { RepeatUnits(s, unit_len + 1, found)
                        : found \in {RepeatLoop(s, unit_len, [i |-> 0, repeats |-> repeats],
                                                Len(s) + 1).repeats} } : TRUE

find_tandem_repeats(seq) ==
    LET repeats == RepeatUnits(Upper(seq), min_unit, <<>>)
        totals == [k \in 1..Len(repeats) |-> repeats[k].total_length]
        total_repeat_bases == SumSeq(totals)
    IN  [count |-> Len(repeats),
         total_bases |-> total_repeat_bases,
         fraction |-> IF seq /= <<>> THEN Ratio(total_repeat_bases, Len(seq))
                      ELSE Ratio(0, 1),
         longest |-> MaxSeq(totals),
         repeats |-> SliceTo(repeats, positions_limit)]

(***************************************************************************)
(* seq_qc.py: calculate_linguistic_complexity                              *)
(***************************************************************************)
kmer_k == 3

RECURSIVE Power(_, _)
Power(b, e) == IF e = 0 THEN 1 ELSE b * Power(b, e - 1)

\* Mutant of calculate_linguistic_complexity: possible = 4 ** k, without the min
\* with the number of windows.
calculate_linguistic_complexity_all_possible(seq) ==
    IF Len(seq) < kmer_k THEN Ratio(0, 1)
    ELSE LET up == Upper(seq)
             kmers == { Slice(up, i, i + kmer_k) : i \in Range(0, Len(up) - kmer_k + 1) }
             valid == { kmer \in kmers :
                          \A b \in 1..Len(kmer) : kmer[b] \in {"A", "T", "C", "G"} }
             possible == Power(4, kmer_k)
         IN  IF possible > 0 THEN Ratio(Cardinality(valid), possible) ELSE Ratio(0, 1)

calculate_linguistic_complexity(seq) ==
    IF Len(seq) < kmer_k THEN Ratio(0, 1)
    ELSE LET up == Upper(seq)
             kmers == { Slice(up, i, i + kmer_k) : i \in Range(0, Len(up) - kmer_k + 1) }
             valid == { kmer \in kmers :
                          \A b \in 1..Len(kmer) : kmer[b] \in {"A", "T", "C", "G"} }
             possible == Min(Power(4, kmer_k), Len(up) - kmer_k + 1)
         IN  IF possible > 0 THEN Ratio(Cardinality(valid), possible) ELSE Ratio(0, 1)

(***************************************************************************)
(* seq_qc.py: find_gc_extremes                                             *)
(***************************************************************************)
window_size == 50
gc_positions_limit == 10

\* range(0, len(sequence) - window_size + 1, step), in order
WindowStarts(len, step) ==
    [k \in 1..((len - window_size) \div step + 1) |-> (k - 1) * step]

\* window.count("G") + window.count("C") for the window starting at i
WindowGC(up, i) ==
    LET window == Slice(up, i, i + window_size)
    IN  Count(window, "G") + Count(window, "C")

\* Mutant of find_gc_extremes: "gc >= 0.70" and "gc <= 0.30".
find_gc_extremes_inclusive(seq) ==
    IF Len(seq) < window_size
    THEN [high_gc_regions |-> PyList(<<>>), low_gc_regions |-> PyList(<<>>),
          gc_range |-> Ratio(0, 1)]
    ELSE LET up == Upper(seq)
             half == WindowStarts(Len(up), window_size \div 2)
             win(k) == [start |-> half[k], end |-> half[k] + window_size,
                        gc |-> Ratio(WindowGC(up, half[k]), window_size)]
             all == [k \in 1..Len(half) |-> win(k)]
             high_gc == SelectSeq(all, LAMBDA w : ~RatioLT(w.gc, 70, 100))
             low_gc == SelectSeq(all, LAMBDA w :
                                   RatioLT(w.gc, 70, 100) /\ ~RatioGT(w.gc, 30, 100))
             full == WindowStarts(Len(up), window_size)
             gc_values == [k \in 1..Len(full) |-> WindowGC(up, full[k])]
         IN  [high_gc_regions |-> PyInt(Len(high_gc)),
              low_gc_regions |-> PyInt(Len(low_gc)),
              gc_range |-> IF gc_values /= <<>>
                           THEN Ratio(MaxSeq(gc_values) - MinSeq(gc_values), window_size)
                           ELSE Ratio(0, 1),
              high_gc_positions |-> SliceTo(high_gc, gc_positions_limit),
              low_gc_positions |-> SliceTo(low_gc, gc_positions_limit)]

find_gc_extremes(seq) ==
    IF Len(seq) < window_size
    THEN [high_gc_regions |-> PyList(<<>>), low_gc_regions |-> PyList(<<>>),
          gc_range |-> Ratio(0, 1)]
    ELSE LET up == Upper(seq)
             half == WindowStarts(Len(up), window_size \div 2)
             win(k) == [start |-> half[k], end |-> half[k] + window_size,
                        gc |-> Ratio(WindowGC(up, half[k]), window_size)]
             all == [k \in 1..Len(half) |-> win(k)]
             high_gc == SelectSeq(all, LAMBDA w : RatioGT(w.gc, 70, 100))
             low_gc == SelectSeq(all, LAMBDA w :
                                   ~RatioGT(w.gc, 70, 100) /\ RatioLT(w.gc, 30, 100))
             full == WindowStarts(Len(up), window_size)
             gc_values == [k \in 1..Len(full) |-> WindowGC(up, full[k])]
         IN  [high_gc_regions |-> PyInt(Len(high_gc)),
              low_gc_regions |-> PyInt(Len(low_gc)),
              gc_range |-> IF gc_values /= <<>>
                           THEN Ratio(MaxSeq(gc_values) - MinSeq(gc_values), window_size)
                           ELSE Ratio(0, 1),
              high_gc_positions |-> SliceTo(high_gc, gc_positions_limit),
              low_gc_positions |-> SliceTo(low_gc, gc_positions_limit)]

(***************************************************************************)
(* seq_qc.py: find_hairpins                                                *)
(***************************************************************************)
stem_min == 6
loop_min == 3
loop_max == 8

\* complement.get(b, "N")
Complement(b) ==
    CASE b = "A" -> "T" [] b = "T" -> "A" [] b = "G" -> "C" [] b = "C" -> "G"
      [] OTHER -> "N"

\* "".join(complement.get(b, "N") for b in stem)[::-1]
ComplementStem(stem) ==
    [k \in 1..Len(stem) |-> Complement(stem[Len(stem) + 1 - k])]

\* "for loop_size in range(loop_min, loop_max + 1)" from loop_size at start i:
\* TRUE when the loop counts a hairpin
RECURSIVE HairpinAt(_, _, _)
HairpinAt(s, i, loop_size) ==
    IF loop_size > loop_max THEN FALSE
    ELSE LET j == i + stem_min + loop_size
         IN  IF j + stem_min > Len(s) THEN FALSE
             ELSE IF Slice(s, j, j + stem_min) = ComplementStem(Slice(s, i, i + stem_min))
             THEN TRUE
             ELSE HairpinAt(s, i, loop_size + 1)

find_hairpins(seq) ==
    LET up == Upper(seq)
    IN  Cardinality({ i \in Range(0, Len(up) - stem_min * 2 - loop_min) :
                        HairpinAt(up, i, loop_min) })

(***************************************************************************)
(* seq_qc.py: calculate_synthesis_risk                                     *)
(***************************************************************************)
\* a + b and a > n on typed values; "TypeError" where Python raises it
PyAdd(a, b) ==
    IF a.ty = "int" /\ b.ty = "int" THEN PyInt(a.val + b.val)
    ELSE IF a.ty = "list" /\ b.ty = "list" THEN PyList(a.val \o b.val)
    ELSE [ty |-> "TypeError", val |-> 0]
PyGreaterRaises(a, n) == a.ty /= "int"

Reason(label, value) == [label |-> label, value |-> value]

\* Mutant of GCContentTerm: the thresholds are inclusive (>= 0.65, <= 0.35).
GCContentTermInclusive(gc_content) ==
    IF ~RatioLT(gc_content, 65, 100)
    THEN [penalty |-> 15,
          reasons |-> <<Reason("High GC content", FormatPercent(gc_content))>>]
    ELSE IF ~RatioGT(gc_content, 35, 100)
    THEN [penalty |-> 15,
          reasons |-> <<Reason("Low GC content", FormatPercent(gc_content))>>]
    ELSE [penalty |-> 0, reasons |-> <<>>]

\* "GC content issues": the penalty in hundredths and the reasons appended
GCContentTerm(gc_content) ==
    IF RatioGT(gc_content, 65, 100)
    THEN [penalty |-> 15,
          reasons |-> <<Reason("High GC content", FormatPercent(gc_content))>>]
    ELSE IF RatioLT(gc_content, 35, 100)
    THEN [penalty |-> 15,
          reasons |-> <<Reason("Low GC content", FormatPercent(gc_content))>>]
    ELSE [penalty |-> 0, reasons |-> <<>>]

\* Mutant of HomopolymerTerm: the second tier is an "if", not an "elif", so a long
\* homopolymer fires both tiers.
HomopolymerTermBothTiers(homopolymers) ==
    LET long == IF homopolymers.max_length >= 8
                THEN [penalty |-> 25,
                      reasons |-> <<Reason("Long homopolymer",
                                           IntToStr(homopolymers.max_length))>>]
                ELSE [penalty |-> 0, reasons |-> <<>>]
        moderate == IF homopolymers.max_length >= 6
                    THEN [penalty |-> 10,
                          reasons |-> <<Reason("Moderate homopolymer",
                                               IntToStr(homopolymers.max_length))>>]
                    ELSE [penalty |-> 0, reasons |-> <<>>]
    IN  [penalty |-> long.penalty + moderate.penalty,
         reasons |-> long.reasons \o moderate.reasons]

\* "Homopolymer issues"
HomopolymerTerm(homopolymers) ==
    IF homopolymers.max_length >= 8
    THEN [penalty |-> 25,
          reasons |-> <<Reason("Long homopolymer", IntToStr(homopolymers.max_length))>>]
    ELSE IF homopolymers.max_length >= 6
    THEN [penalty |-> 10,
          reasons |-> <<Reason("Moderate homopolymer",
                               IntToStr(homopolymers.max_length))>>]
    ELSE [penalty |-> 0, reasons |-> <<>>]

\* "Repeat issues"
RepeatTerm(repeats) ==
    IF RatioGT(repeats.fraction, 10, 100)
    THEN [penalty |-> 20,
          reasons |-> <<Reason("High repeat content", FormatPercent(repeats.fraction))>>]
    ELSE IF RatioGT(repeats.fraction, 5, 100)
    THEN [penalty |-> 10,
          reasons |-> <<Reason("Moderate repeat content",
                               FormatPercent(repeats.fraction))>>]
    ELSE [penalty |-> 0, reasons |-> <<>>]

\* "GC extreme regions", once extreme_count is known to be an int
GCExtremeTerm(extreme_count) ==
    IF extreme_count > 5
    THEN [penalty |-> 15,
          reasons |-> <<Reason("Many GC extreme regions", IntToStr(extreme_count))>>]
    ELSE [penalty |-> 0, reasons |-> <<>>]

\* "Hairpin structures"
HairpinTerm(hairpins) ==
    IF hairpins > 10
    THEN [penalty |-> 15,
          reasons |-> <<Reason("Many potential hairpins", IntToStr(hairpins))>>]
    ELSE [penalty |-> 0, reasons |-> <<>>]

\* Mutant of Clamp: the upper bound is 0.5, which the sum of the penalties exceeds.
ClampAtHalf(score) == Min(50, Max(0, score))

\* score = min(1.0, max(0.0, score)), in hundredths
Clamp(score) == Min(100, Max(0, score))

\* calculate_synthesis_risk(...) -> (score, reasons), or an exception
calculate_synthesis_risk(gc_content, homopolymers, repeats, gc_extremes, hairpins, length) ==
    LET gc == GCContentTerm(gc_content)
        hp == HomopolymerTerm(homopolymers)
        rp == RepeatTerm(repeats)
        extreme_count == PyAdd(gc_extremes.high_gc_regions, gc_extremes.low_gc_regions)
    IN  IF PyGreaterRaises(extreme_count, 5)
        THEN [score |-> 0, reasons |-> <<>>, raised |-> "TypeError"]
        ELSE LET ex == GCExtremeTerm(extreme_count.val)
                 ha == HairpinTerm(hairpins)
             IN  [score |-> Clamp(gc.penalty + hp.penalty + rp.penalty
                                  + ex.penalty + ha.penalty),
                  reasons |-> gc.reasons \o hp.reasons \o rp.reasons
                              \o ex.reasons \o ha.reasons,
                  raised |-> ""]

(***************************************************************************)
(* seq_qc.py: main, from the sequence read to the result dict              *)
(***************************************************************************)
ScoreResult(raw) ==
    LET seq == Upper(raw)
        gc_content == calculate_gc_content(seq)
        homopolymers == find_homopolymers(seq)
        repeats == find_tandem_repeats(seq)
        complexity == calculate_linguistic_complexity(seq)
        gc_extremes == find_gc_extremes(seq)
        hairpins == find_hairpins(seq)
        risk == calculate_synthesis_risk(gc_content, homopolymers, repeats,
                                         gc_extremes, hairpins, Len(seq))
    IN  IF risk.raised /= "" THEN [raised |-> risk.raised]
        ELSE [raised |-> "",
              length |-> Len(seq),
              gc_content |-> gc_content,
              linguistic_complexity |-> complexity,
              homopolymers |-> homopolymers,
              tandem_repeats |-> repeats,
              gc_extremes |-> gc_extremes,
              hairpin_estimate |-> hairpins,
              synthesis_risk |-> risk.score,
              synthesis_risk_reasons |-> risk.reasons]

(***************************************************************************)
(* annotators.py: annotate_record                                          *)
(***************************************************************************)
\* The dict annotate_record returns before it has run.
NoPlasmid ==
    [sequence |-> <<>>, sequence_length |-> 0, pk_version |-> "", pk_features |-> <<>>,
     insert_regions |-> <<>>, backbone_regions |-> <<>>, annotated_sequence |-> <<>>,
     has_identifiable_insert |-> FALSE, insert_detection_method |-> "",
     annotation_confidence |-> 0]

\* Lines 212-216 and the fields of the AnnotatedPlasmid they fill; the fields
\* copied from the record's GenBank metadata are left out.
AnnotateResult(seq, feats, version) ==
    LET found == identify_insert_regions_pk(seq, feats)
    IN  IF found.raised /= "" THEN [raised |-> found.raised, plasmid |-> NoPlasmid]
        ELSE [raised |-> "",
              plasmid |->
                [sequence |-> seq,
                 sequence_length |-> Len(seq),
                 pk_version |-> version,
                 pk_features |-> feats,
                 insert_regions |-> found.regions,
                 backbone_regions |-> calculate_backbone_regions(Len(seq), found.regions),
                 annotated_sequence |-> create_annotated_sequence(seq, found.regions),
                 has_identifiable_insert |-> Len(found.regions) > 0,
                 insert_detection_method |-> found.method,
                 annotation_confidence |-> found.confidence]]

(***************************************************************************)
(* Inputs.                                                                 *)
(***************************************************************************)
\* Sequence lengths of the records: empty, one base, exactly one minimum gap,
\* room for two gaps, and room for three.
SeqLengths == {0, 1, 300, 650, 1000}

\* The record's sequence of length len: a fixed aperiodic text over A/C/G/T, so
\* that a shifted or misplaced slice differs from the right one.
Base(i) == <<"A", "C", "G", "T">>[((i + (i \div 3) + (i \div 11)) % 4) + 1]
MakeSequence(len) == [i \in 1..len |-> Base(i)]

\* The feature dicts the annotation engine can return: each backbone type, a
\* non-backbone type, a dict without a type, intervals that are negative,
\* inverted, past the end of every sequence, or lack their end, and one in the
\* middle that leaves fewer than min_gap_size positions before it.
FeaturePool ==
    { [type |-> "rep_origin", start |-> 0, end |-> 400],
      [type |-> "marker", start |-> 300, end |-> 301],
      [type |-> "promoter", start |-> 601, end |-> 602],
      [type |-> "terminator", start |-> 0, end |-> 1],
      [type |-> "CDS", start |-> 100, end |-> 900],
      [type |-> "marker", start |-> -50, end |-> 100],
      [type |-> "rep_origin", start |-> 900, end |-> 1200],
      [type |-> "promoter", start |-> 500, end |-> 200],
      [type |-> "terminator", start |-> -20, end |-> -10],
      [type |-> "marker", start |-> 350],
      [type |-> "terminator", start |-> 1100, end |-> 1300],
      [type |-> "promoter", start |-> 250, end |-> 400],
      [start |-> 0, end |-> 1000] }

FeatureLists == UNION { [1..n -> FeaturePool] : n \in 0..MaxFeatures }

\* Sequences the QC script reads: every text of up to MaxUnitLen symbols, and
\* every non-empty one repeated up to a length below, at and above the GC window
\* (10 bases is the case the scorer's contract names: one base ten times).
QCAlphabet == {"A", "C", "G", "T", "N", "g"}
QCLengths == {10, 20, 49, 50, 100}
QCUnits == UNION { [1..n -> QCAlphabet] : n \in 0..MaxUnitLen }
Repeated(unit, len) == [i \in 1..len |-> unit[((i - 1) % Len(unit)) + 1]]
QCSequences ==
    QCUnits \cup { Repeated(unit, len) : unit \in QCUnits \ {<<>>}, len \in QCLengths }

(***************************************************************************)
(* The region partitioner: one record through annotate_record.             *)
(***************************************************************************)
QCIdle == qc_pc = "idle" /\ qc_sequence = <<>> /\ qc_result = [raised |-> ""]

RiskIdle == risk_pc = "idle" /\ risk_args = <<>> /\ risk_out = [raised |-> ""]

FlowIdle ==
    /\ flow_pc = <<>> /\ force_reprocess = FALSE
    /\ parsed_out = <<>> /\ annotated_out = <<>> /\ processed_out = <<>>
    /\ ran = <<>> /\ result_info = <<>>

Init ==
    /\ pc = "start"
    /\ \E len \in SeqLengths : record = [sequence |-> MakeSequence(len)]
    /\ plasmid = NoPlasmid
    /\ raised = ""
    /\ backbone_sequence = <<>>
    /\ QCIdle /\ RiskIdle /\ FlowIdle

Annotate(feats, version) ==
    /\ pc = "start"
    /\ \E result \in {AnnotateResult(record.sequence, feats, version)} :
          /\ pc' = IF result.raised = "" THEN "done" ELSE "failed"
          /\ raised' = result.raised
          /\ plasmid' = result.plasmid
    /\ UNCHANGED <<record, backbone_sequence, qc_vars, risk_vars, flow_vars>>

\* annotate_record when PlasmidKit returns its features
AnnotateRecord == \E feats \in FeatureLists : Annotate(feats, "v0.1.0")

\* annotate_record when PlasmidKit raises: pk_features = [], pk_version = "error"
AnnotateRecordPkFailed == Annotate(<<>>, "error")

Next == AnnotateRecord \/ AnnotateRecordPkFailed

Spec == Init /\ [][Next]_vars

(***************************************************************************)
(* The sequence risk scorer: one FASTA record through seq_qc.main.         *)
(***************************************************************************)
PkIdle ==
    /\ pc = "idle" /\ record = [sequence |-> <<>>] /\ plasmid = NoPlasmid /\ raised = ""
    /\ backbone_sequence = <<>>

InitQC ==
    /\ qc_pc = "start"
    /\ qc_sequence \in QCSequences
    /\ qc_result = [raised |-> ""]
    /\ PkIdle /\ RiskIdle /\ FlowIdle

\* main() up to the result dict, when no exception escapes
ScoreSequence ==
    /\ qc_pc = "start"
    /\ \E result \in {ScoreResult(qc_sequence)} :
          /\ result.raised = ""
          /\ qc_result' = result
    /\ qc_pc' = "done"
    /\ UNCHANGED <<qc_sequence, pk_vars, risk_vars, flow_vars>>

\* main() when calculate_synthesis_risk raises: the exception escapes main
ScoreSequenceRaises ==
    /\ qc_pc = "start"
    /\ \E result \in {ScoreResult(qc_sequence)} :
          /\ result.raised /= ""
          /\ qc_result' = result
    /\ qc_pc' = "failed"
    /\ UNCHANGED <<qc_sequence, pk_vars, risk_vars, flow_vars>>

NextQC == ScoreSequence \/ ScoreSequenceRaises

SpecQC == InitQC /\ [][NextQC]_vars

(***************************************************************************)
(* The metrics of seq_qc.main one by one: main in two steps, the metric    *)
(* functions first, calculate_synthesis_risk second, on sequences put      *)
(* together from blocks.                                                   *)
(***************************************************************************)
\* Blocks: a run of 5, a run of 4, a symbol that is no base, a lower-case run,
\* a 6-base palindrome (its own reverse complement), a short loop, ten bases
\* with 7 G and ten with 3 G, and three copies of a two-base unit.
MetricBlocks ==
    { Repeated(<<"A">>, 5),
      Repeated(<<"C">>, 4),
      <<"N">>,
      Repeated(<<"t">>, 5),
      <<"G", "A", "A", "T", "T", "C">>,
      Repeated(<<"A">>, 3),
      Repeated(<<"G">>, 7) \o Repeated(<<"A">>, 3),
      Repeated(<<"G">>, 3) \o Repeated(<<"A">>, 7),
      Repeated(<<"A", "C">>, 6) }

RECURSIVE Flatten(_)
Flatten(blocks) == IF blocks = <<>> THEN <<>> ELSE Head(blocks) \o Flatten(Tail(blocks))

\* Every text of up to MaxBlocks blocks
MetricTexts ==
    { Flatten(blocks) : blocks \in UNION { [1..n -> MetricBlocks] : n \in 0..MaxBlocks } }

\* Every block and every pair of blocks repeated up to a length with more than
\* 20 runs, and up to one with more than 10 windows.
MetricLongLengths == {110, 300}
MetricSequences ==
    MetricTexts
    \cup { Repeated(a, len) : a \in MetricBlocks, len \in MetricLongLengths }
    \cup { Repeated(a \o b, len) : a \in MetricBlocks, b \in MetricBlocks,
                                    len \in MetricLongLengths }

\* "Calculate metrics": the values main holds before it calls
\* calculate_synthesis_risk
MetricsOf(raw) ==
    LET seq == Upper(raw)
    IN  [raised |-> "",
         length |-> Len(seq),
         gc_content |-> calculate_gc_content(seq),
         linguistic_complexity |-> calculate_linguistic_complexity(seq),
         homopolymers |-> find_homopolymers(seq),
         tandem_repeats |-> find_tandem_repeats(seq),
         gc_extremes |-> find_gc_extremes(seq),
         hairpin_estimate |-> find_hairpins(seq)]

InitMetrics ==
    /\ qc_pc = "start"
    /\ qc_sequence \in MetricSequences
    /\ qc_result = [raised |-> ""]
    /\ PkIdle /\ RiskIdle /\ FlowIdle

MeasureSequence ==
    /\ qc_pc = "start"
    /\ \E metrics \in {MetricsOf(qc_sequence)} : qc_result' = metrics
    /\ qc_pc' = "measured"
    /\ UNCHANGED <<qc_sequence, pk_vars, risk_vars, flow_vars>>

\* The call of calculate_synthesis_risk and "Build result"
ScoreMeasured ==
    /\ qc_pc = "measured"
    /\ \E risk \in {calculate_synthesis_risk(qc_result.gc_content, qc_result.homopolymers,
                                              qc_result.tandem_repeats, qc_result.gc_extremes,
                                              qc_result.hairpin_estimate, qc_result.length)} :
          IF risk.raised = ""
          THEN /\ qc_pc' = "done"
               /\ qc_result' = [k \in DOMAIN qc_result
                                      \cup {"synthesis_risk", "synthesis_risk_reasons"} |->
                                  CASE k = "synthesis_risk" -> risk.score
                                    [] k = "synthesis_risk_reasons" -> risk.reasons
                                    [] OTHER -> qc_result[k]]
          ELSE /\ qc_pc' = "failed"
               /\ qc_result' = [raised |-> risk.raised]
    /\ UNCHANGED <<qc_sequence, pk_vars, risk_vars, flow_vars>>

NextMetrics == MeasureSequence \/ ScoreMeasured

SpecMetrics == InitMetrics /\ [][NextMetrics]_vars

(***************************************************************************)
(* The risk score: one call of calculate_synthesis_risk on given metrics.  *)
(***************************************************************************)
\* The metrics a call is given: values below, at and above each threshold of the
\* score. gc_content and the repeat fraction are in hundredths; the window counts
\* are given as (high, low), as integers and as the lists find_gc_extremes
\* returns for a sequence shorter than its window.
RiskGCContents == { Ratio(k, 100) : k \in {34, 35, 36, 64, 65, 66} }
RiskMaxLengths == {0, 5, 6, 7, 8, 9}
RiskFractions == { Ratio(k, 100) : k \in {0, 5, 6, 10, 11} }
RiskExtremes ==
    { [high_gc_regions |-> PyInt(h), low_gc_regions |-> PyInt(l)]
        : h \in {0, 2, 6}, l \in {0, 3} }
    \cup { [high_gc_regions |-> PyList(<<>>), low_gc_regions |-> PyList(<<>>)] }
RiskHairpins == {0, 10, 11}

RiskArgs ==
    [gc_content : RiskGCContents,
     homopolymers : [max_length : RiskMaxLengths],
     repeats : [fraction : RiskFractions],
     gc_extremes : RiskExtremes,
     hairpins : RiskHairpins,
     length : {100}]

InitRisk ==
    /\ risk_pc = "start"
    /\ risk_args \in RiskArgs
    /\ risk_out = [raised |-> ""]
    /\ PkIdle /\ QCIdle /\ FlowIdle

\* The call returns (score, reasons)
RiskReturns ==
    /\ risk_pc = "start"
    /\ \E result \in {calculate_synthesis_risk(risk_args.gc_content, risk_args.homopolymers,
                                                risk_args.repeats, risk_args.gc_extremes,
                                                risk_args.hairpins, risk_args.length)} :
          /\ result.raised = ""
          /\ risk_out' = result
    /\ risk_pc' = "done"
    /\ UNCHANGED <<risk_args, pk_vars, qc_vars, flow_vars>>

\* The call raises
RiskRaises ==
    /\ risk_pc = "start"
    /\ \E result \in {calculate_synthesis_risk(risk_args.gc_content, risk_args.homopolymers,
                                                risk_args.repeats, risk_args.gc_extremes,
                                                risk_args.hairpins, risk_args.length)} :
          /\ result.raised /= ""
          /\ risk_out' = result
    /\ risk_pc' = "failed"
    /\ UNCHANGED <<risk_args, pk_vars, qc_vars, flow_vars>>

NextRisk == RiskReturns \/ RiskRaises

SpecRisk == InitRisk /\ [][NextRisk]_vars

(***************************************************************************)
(* data_cleaning_flow.py: the per-batch steps of DataCleaningFlow, from the *)
(* fan-out of shard_files to join_batches. A cache file is "absent" or     *)
(* names the run whose parse of the raw files its content comes from.      *)
(***************************************************************************)
Batches == 1..MaxBatches

\* The cache files a previous run can have left behind.
LeftBehind == [Batches -> {"absent", "previous"}]

InitFlow ==
    /\ flow_pc = [b \in Batches |-> "parse_batch"]
    /\ force_reprocess \in BOOLEAN
    /\ parsed_out \in LeftBehind
    /\ annotated_out \in LeftBehind
    /\ processed_out \in LeftBehind
    /\ ran = [b \in Batches |-> {}]
    /\ result_info = [b \in Batches |-> <<>>]
    /\ PkIdle /\ QCIdle /\ RiskIdle

\* "if not settings.force_reprocess and self.processed_out.exists()"
AlreadyProcessed(b) == ~force_reprocess /\ processed_out[b] /= "absent"

\* self.result_info = {"pairs": len(df)} of the processed file read back
CachedResultInfo(b) == [pairs |-> processed_out[b]]

\* parse_batch of batch b
ParseBatch(b) ==
    /\ flow_pc[b] = "parse_batch"
    /\ flow_pc' = [flow_pc EXCEPT ![b] = "annotate_batch"]
    /\ IF AlreadyProcessed(b)
       THEN /\ result_info' = [result_info EXCEPT ![b] = CachedResultInfo(b)]
            /\ UNCHANGED <<parsed_out, ran>>
       ELSE IF parsed_out[b] /= "absent"
       THEN UNCHANGED <<parsed_out, ran, result_info>>
       ELSE /\ parsed_out' = [parsed_out EXCEPT ![b] = "current"]
            /\ ran' = [ran EXCEPT ![b] = @ \cup {"parse_batch"}]
            /\ UNCHANGED result_info
    /\ UNCHANGED <<force_reprocess, annotated_out, processed_out,
                   pk_vars, qc_vars, risk_vars>>

\* annotate_batch of batch b
AnnotateBatch(b) ==
    /\ flow_pc[b] = "annotate_batch"
    /\ flow_pc' = [flow_pc EXCEPT ![b] = "pairs_batch"]
    /\ IF AlreadyProcessed(b)
       THEN /\ result_info' = [result_info EXCEPT ![b] = CachedResultInfo(b)]
            /\ UNCHANGED <<annotated_out, ran>>
       ELSE IF annotated_out[b] /= "absent"
       THEN UNCHANGED <<annotated_out, ran, result_info>>
       ELSE /\ annotated_out' = [annotated_out EXCEPT ![b] = parsed_out[b]]
            /\ ran' = [ran EXCEPT ![b] = @ \cup {"annotate_batch"}]
            /\ UNCHANGED result_info
    /\ UNCHANGED <<force_reprocess, parsed_out, processed_out,
                   pk_vars, qc_vars, risk_vars>>

\* pairs_batch of batch b
PairsBatch(b) ==
    /\ flow_pc[b] = "pairs_batch"
    /\ flow_pc' = [flow_pc EXCEPT ![b] = "join_batches"]
    /\ IF AlreadyProcessed(b)
       THEN /\ result_info' = [result_info EXCEPT ![b] = CachedResultInfo(b)]
            /\ UNCHANGED <<processed_out, ran>>
       ELSE /\ processed_out' = [processed_out EXCEPT ![b] = annotated_out[b]]
            /\ ran' = [ran EXCEPT ![b] = @ \cup {"pairs_batch"}]
            /\ result_info' = [result_info EXCEPT ![b] =
                                  [pairs |-> annotated_out[b], parsed |-> annotated_out[b],
                                   stats |-> annotated_out[b]]]
    /\ UNCHANGED <<force_reprocess, parsed_out, annotated_out,
                   pk_vars, qc_vars, risk_vars>>

\* join_batches, once every batch's task has come through pairs_batch
JoinBatches ==
    /\ \A b \in Batches : flow_pc[b] = "join_batches"
    /\ flow_pc' = [b \in Batches |-> "split"]
    /\ UNCHANGED <<force_reprocess, parsed_out, annotated_out, processed_out, ran,
                   result_info, pk_vars, qc_vars, risk_vars>>

NextFlow ==
    \/ \E b \in Batches : ParseBatch(b)
    \/ \E b \in Batches : AnnotateBatch(b)
    \/ \E b \in Batches : PairsBatch(b)
    \/ JoinBatches

SpecFlow == InitFlow /\ [][NextFlow]_vars

(***************************************************************************)
(* Vocabulary of the properties.                                           *)
(***************************************************************************)
SeqLen == Len(record.sequence)
Returned == pc = "done"

\* The positions of a region [start, end)
Positions(r) == Range(r.start, r.end)

RegionLengths(regions) == SumSeq([k \in 1..Len(regions) |-> regions[k].length])

\* A feature typed origin, marker, promoter or terminator
IsBackboneTyped(f) ==
    "type" \in DOMAIN f /\ f.type \in {"rep_origin", "marker", "promoter", "terminator"}

NoBackboneTyped(feats) == \A k \in 1..Len(feats) : ~IsBackboneTyped(feats[k])

\* The positions of [0, L) inside [max(0, start), min(L, end)) of some
\* backbone-typed feature
ClippedCoverage(feats, L) ==
    UNION { Max(0, Get(feats[k], "start", 0)) .. (Min(L, Get(feats[k], "end", 0)) - 1)
            : k \in { m \in 1..Len(feats) : IsBackboneTyped(feats[m]) } }

\* s.replace(old, new) for a text old that cannot overlap itself: every
\* occurrence of old, left to right
RECURSIVE Replace(_, _, _)
Replace(s, old, new) ==
    LET starts == { i \in 1..(Len(s) - Len(old) + 1) : s[i] = old[1] }
        found == { i \in starts : SubSeq(s, i, i + Len(old) - 1) = old }
    IN  IF found = {} THEN s
        ELSE LET i == CHOOSE m \in found : \A o \in found : m <= o
             IN  SubSeq(s, 1, i - 1) \o new
                 \o Replace(SubSeq(s, i + Len(old), Len(s)), old, new)

\* The masked text with the token <INSERT_k> replaced by the bases of the k-th
\* region in descending order of start, for k = idx, idx + 1, ...
RECURSIVE Unmask(_, _, _, _)
Unmask(masked, seq, ordered, idx) ==
    IF ordered = <<>> THEN masked
    ELSE Unmask(Replace(masked, InsertToken(idx),
                        Slice(seq, Head(ordered).start, Head(ordered).end)),
                seq, Tail(ordered), idx + 1)

(***************************************************************************)
(* The partitioner called again on the same record, with a feature list    *)
(* that covers the same positions with backbone-typed features.            *)
(***************************************************************************)
Reverse(xs) == [k \in 1..Len(xs) |-> xs[Len(xs) + 1 - k]]
Remove(xs, k) == SubSeq(xs, 1, k - 1) \o SubSeq(xs, k + 1, Len(xs))

\* The list reordered, with a feature duplicated, with a feature added, and with
\* a feature removed.
Variants(feats) ==
    {Reverse(feats)}
    \cup { Append(feats, feats[k]) : k \in 1..Len(feats) }
    \cup { Append(feats, f) : f \in FeaturePool }
    \cup { Remove(feats, k) : k \in 1..Len(feats) }

SameCoverage(feats, other, L) ==
    /\ ~NoBackboneTyped(feats)
    /\ ~NoBackboneTyped(other)
    /\ ClippedCoverage(feats, L) = ClippedCoverage(other, L)

\* annotate_record on the same record when the annotation engine answers with
\* a variant of its first answer
AnnotateRecordAgain ==
    /\ pc = "done"
    /\ ~NoBackboneTyped(plasmid.pk_features)
    /\ \E covered \in {ClippedCoverage(plasmid.pk_features, SeqLen)} :
       \E feats \in Variants(plasmid.pk_features) :
          /\ feats /= plasmid.pk_features
          /\ ~NoBackboneTyped(feats)
          /\ ClippedCoverage(feats, SeqLen) = covered
          /\ \E result \in {AnnotateResult(record.sequence, feats, plasmid.pk_version)} :
                /\ pc' = IF result.raised = "" THEN "redone" ELSE "failed"
                /\ raised' = result.raised
                /\ plasmid' = result.plasmid
    /\ UNCHANGED <<record, backbone_sequence, qc_vars, risk_vars, flow_vars>>

NextAgain == AnnotateRecord \/ AnnotateRecordPkFailed \/ AnnotateRecordAgain

SpecAgain == Init /\ [][NextAgain]_vars

(***************************************************************************)
(* The annotated record through training.create_training_pair, up to the   *)
(* test of the backbone length; the prompt and the metadata of the         *)
(* TrainingPair are left out.                                              *)
(***************************************************************************)
min_backbone_length == 500

\* len(backbone.replace("<INSERT>", "").replace("<INSERT_1>", "").replace("<INSERT_2>", ""))
BackboneLength(text) ==
    Len(Replace(Replace(Replace(text, PlainToken, <<>>), InsertToken(1), <<>>),
                InsertToken(2), <<>>))

\* create_training_pair: "paired" when it returns a TrainingPair, "dropped"
\* when it returns None
CreateTrainingPair ==
    /\ pc = "done"
    /\ \E response \in {create_backbone_sequence(plasmid)} :
          /\ backbone_sequence' = response
          /\ pc' = IF BackboneLength(response) < min_backbone_length
                   THEN "dropped" ELSE "paired"
    /\ UNCHANGED <<record, plasmid, raised, qc_vars, risk_vars, flow_vars>>

NextPair == AnnotateRecord \/ AnnotateRecordPkFailed \/ CreateTrainingPair

SpecPair == Init /\ [][NextPair]_vars

(***************************************************************************)
(* C1  The insert regions and the backbone regions annotate_record returns *)
(* partition [0, L): no position lies in two regions, every position of    *)
(* [0, L) lies in one, and the lengths add up to L.                        *)
(***************************************************************************)
RegionsPartitionSequence ==
    Returned =>
        LET all == plasmid.insert_regions \o plasmid.backbone_regions
        IN  /\ \A k \in 1..Len(all) : \A m \in (k + 1)..Len(all) :
                   Positions(all[k]) \cap Positions(all[m]) = {}
            /\ UNION { Positions(all[k]) : k \in 1..Len(all) } = Range(0, SeqLen)
            /\ RegionLengths(plasmid.insert_regions)
                   + RegionLengths(plasmid.backbone_regions) = SeqLen

RegionsPartitionSequenceWitness ==
    /\ Returned
    /\ Len(plasmid.insert_regions) >= 2
    /\ Len(plasmid.backbone_regions) >= 2

(***************************************************************************)
(* C2  A non-empty sequence whose features include no backbone-typed one   *)
(* gets no insert region and confidence 0.0; the backbone is the single    *)
(* region [0, L) and the masked sequence is the sequence itself.           *)
(***************************************************************************)
NoBackboneNoInsert ==
    (Returned /\ SeqLen > 0 /\ NoBackboneTyped(plasmid.pk_features)) =>
        /\ plasmid.insert_regions = <<>>
        /\ plasmid.annotation_confidence = 0
        /\ Len(plasmid.backbone_regions) = 1
        /\ plasmid.backbone_regions[1].start = 0
        /\ plasmid.backbone_regions[1].end = SeqLen
        /\ plasmid.annotated_sequence = record.sequence

NoBackboneNoInsertWitness ==
    /\ Returned
    /\ SeqLen >= 300
    /\ Len(plasmid.pk_features) >= 1
    /\ NoBackboneTyped(plasmid.pk_features)

(***************************************************************************)
(* C3  As stated: the method tag is "empty" for an empty sequence and      *)
(* "no_backbone" for a non-empty one without backbone-typed features.      *)
(***************************************************************************)
MethodTagAsStated ==
    Returned =>
        /\ SeqLen = 0 => plasmid.insert_detection_method = "empty"
        /\ (SeqLen > 0 /\ NoBackboneTyped(plasmid.pk_features)) =>
               plasmid.insert_detection_method = "no_backbone"

(***************************************************************************)
(* C3  As amended: the method tag is "pk_empty" for an empty sequence and  *)
(* "pk_no_backbone" for a non-empty one without backbone-typed features.   *)
(***************************************************************************)
MethodTagOfDegenerateInput ==
    Returned =>
        /\ SeqLen = 0 => plasmid.insert_detection_method = "pk_empty"
        /\ (SeqLen > 0 /\ NoBackboneTyped(plasmid.pk_features)) =>
               plasmid.insert_detection_method = "pk_no_backbone"

MethodTagOfDegenerateInputWitness ==
    /\ Returned
    /\ SeqLen = 0
    /\ NoBackboneTyped(plasmid.pk_features)
    /\ plasmid.insert_detection_method = "pk_empty"

(***************************************************************************)
(* C4  For the empty sequence, with any feature list, annotate_record      *)
(* returns no insert region, no backbone region and the empty masked       *)
(* sequence, and raises nothing.                                           *)
(***************************************************************************)
EmptySequenceEmptyOutputs ==
    (pc /= "start" /\ SeqLen = 0) =>
        /\ Returned
        /\ raised = ""
        /\ plasmid.insert_regions = <<>>
        /\ plasmid.backbone_regions = <<>>
        /\ plasmid.annotated_sequence = <<>>

EmptySequenceEmptyOutputsWitness ==
    /\ Returned
    /\ SeqLen = 0
    /\ \E k \in 1..Len(plasmid.pk_features) : IsBackboneTyped(plasmid.pk_features[k])

(***************************************************************************)
(* C5  With a single backbone feature covering [0, a) and L - a >= 300,    *)
(* the uncovered run that reaches the end of the sequence is returned as   *)
(* the one insert region: start = a, end = L, length = L - a.              *)
(***************************************************************************)
TrailingRunCaptured ==
    (/\ Returned
     /\ Len(plasmid.pk_features) = 1
     /\ IsBackboneTyped(plasmid.pk_features[1])
     /\ DOMAIN plasmid.pk_features[1] = {"type", "start", "end"}
     /\ plasmid.pk_features[1].start = 0
     /\ plasmid.pk_features[1].end >= 0
     /\ SeqLen - plasmid.pk_features[1].end >= 300) =>
        /\ Len(plasmid.insert_regions) = 1
        /\ plasmid.insert_regions[1].start = plasmid.pk_features[1].end
        /\ plasmid.insert_regions[1].end = SeqLen
        /\ plasmid.insert_regions[1].length = SeqLen - plasmid.pk_features[1].end

TrailingRunCapturedWitness ==
    /\ Returned
    /\ SeqLen = 1000
    /\ plasmid.pk_features = <<[type |-> "rep_origin", start |-> 0, end |-> 400]>>
    /\ Len(plasmid.insert_regions) = 1
    /\ plasmid.insert_regions[1].start = 400

(***************************************************************************)
(* C6  Every insert region has 0 <= start < end <= L, length = end - start *)
(* and length >= 300; the list is in strictly increasing order of start    *)
(* and each region ends no later than the next one starts.                 *)
(***************************************************************************)
InsertRegionsWellFormed ==
    Returned =>
        LET rs == plasmid.insert_regions
        IN  /\ \A k \in 1..Len(rs) :
                   /\ 0 <= rs[k].start
                   /\ rs[k].start < rs[k].end
                   /\ rs[k].end <= SeqLen
                   /\ rs[k].length = rs[k].end - rs[k].start
                   /\ rs[k].length >= 300
            /\ \A k \in 1..(Len(rs) - 1) :
                   /\ rs[k].start < rs[k + 1].start
                   /\ rs[k].end <= rs[k + 1].start

InsertRegionsWellFormedWitness ==
    /\ Returned
    /\ Len(plasmid.insert_regions) = 3
    /\ plasmid.insert_regions[2].length = 300

(***************************************************************************)
(* C7  Replacing every <INSERT_k> token of the masked sequence with the    *)
(* bases of the region it stands for gives back the sequence, for one      *)
(* insert region and for any number of them.                               *)
(***************************************************************************)
MaskedRoundTrip ==
    Returned =>
        Unmask(plasmid.annotated_sequence, record.sequence,
               SortedByStartDesc(plasmid.insert_regions), 1) = record.sequence

MaskedRoundTripWitness ==
    /\ Returned
    /\ Len(plasmid.insert_regions) = 3
    /\ plasmid.annotated_sequence /= record.sequence

(***************************************************************************)
(* C8  Out-of-range and inverted intervals never make annotate_record      *)
(* fail: the positions marked as backbone are exactly those of [0, L)      *)
(* inside [max(0, start), min(L, end)) of a backbone-typed feature, an     *)
(* interval empty after clipping marks none, and the regions returned lie  *)
(* inside [0, L) and hold no marked position.                              *)
(***************************************************************************)
InvalidIntervalsClipped ==
    pc /= "start" =>
        LET covered == ClippedCoverage(plasmid.pk_features, SeqLen)
            rs == plasmid.insert_regions
        IN  /\ Returned
            /\ raised = ""
            /\ IsBackbone(SortedByStart(BackboneFeats(plasmid.pk_features)), SeqLen)
                   = covered
            /\ \A k \in 1..Len(rs) :
                   /\ Positions(rs[k]) \subseteq Range(0, SeqLen)
                   /\ Positions(rs[k]) \cap covered = {}

InvalidIntervalsClippedWitness ==
    /\ Returned
    /\ SeqLen = 1000
    /\ \E k \in 1..Len(plasmid.pk_features) :
           IsBackboneTyped(plasmid.pk_features[k]) /\ plasmid.pk_features[k].start < 0
    /\ \E k \in 1..Len(plasmid.pk_features) :
           /\ IsBackboneTyped(plasmid.pk_features[k])
           /\ Get(plasmid.pk_features[k], "end", 0) > SeqLen
    /\ Len(plasmid.insert_regions) = 1

(***************************************************************************)
(* C9  Scoring the empty sequence gives gc_content 0.0, homopolymers       *)
(* max_length 0, synthesis_risk 0.0 and no synthesis_risk_reasons.         *)
(***************************************************************************)
EmptySequenceScoresZero ==
    (qc_pc /= "start" /\ qc_sequence = <<>>) =>
        /\ qc_pc = "done"
        /\ qc_result.gc_content = Ratio(0, 1)
        /\ qc_result.homopolymers.max_length = 0
        /\ qc_result.synthesis_risk = 0
        /\ qc_result.synthesis_risk_reasons = <<>>

(***************************************************************************)
(* C10  For every sequence shorter than the 50-base window,                *)
(* find_gc_extremes returns zero window counts, gc_range 0 and empty       *)
(* position lists, and the scoring completes without an exception.         *)
(***************************************************************************)
ShortSequenceScoresWithoutError ==
    (qc_pc /= "start" /\ Len(qc_sequence) < 50) =>
        LET extremes == find_gc_extremes(Upper(qc_sequence))
        IN  /\ qc_pc = "done"
            /\ qc_result.raised = ""
            /\ extremes.high_gc_regions = PyInt(0)
            /\ extremes.low_gc_regions = PyInt(0)
            /\ extremes.gc_range = Ratio(0, 1)
            /\ Get(extremes, "high_gc_positions", <<>>) = <<>>
            /\ Get(extremes, "low_gc_positions", <<>>) = <<>>

(***************************************************************************)
(* C11  Scoring "G" repeated 10 times gives gc_content 1.0, one            *)
(* homopolymer entry of length 10, and synthesis_risk 0.40 made of the     *)
(* high-GC-content penalty and the long-homopolymer penalty alone.         *)
(***************************************************************************)
TenGScoresForty ==
    (qc_pc /= "start" /\ qc_sequence = Repeated(<<"G">>, 10)) =>
        /\ qc_pc = "done"
        /\ qc_result.raised = ""
        /\ qc_result.gc_content = Ratio(10, 10)
        /\ Len(qc_result.homopolymers.positions) = 1
        /\ qc_result.homopolymers.positions[1].length = 10
        /\ qc_result.synthesis_risk = 40
        /\ [k \in 1..Len(qc_result.synthesis_risk_reasons)
              |-> qc_result.synthesis_risk_reasons[k].label]
             = <<"High GC content", "Long homopolymer">>

(***************************************************************************)
(* C12  For a sequence that is one base repeated n times,                  *)
(* find_tandem_repeats reports count 0, total_bases 0 and fraction 0.      *)
(***************************************************************************)
SingleBaseRun(s) == s /= <<>> /\ \A i \in 1..Len(s) : UpperChar(s[i]) = UpperChar(s[1])

IdenticalRunNotTandemRepeat ==
    (qc_pc /= "start" /\ SingleBaseRun(qc_sequence)) =>
        LET repeats == find_tandem_repeats(Upper(qc_sequence))
        IN  /\ repeats.count = 0
            /\ repeats.total_bases = 0
            /\ repeats.fraction.num = 0

(***************************************************************************)
(* C13  The score calculate_synthesis_risk returns is the sum, clamped to  *)
(* [0, 1], of: 0.15 if gc_content > 0.65 or < 0.35; 0.25 if the longest    *)
(* homopolymer is >= 8, else 0.10 if >= 6; 0.20 if the repeat fraction is  *)
(* > 0.10, else 0.10 if > 0.05; 0.15 if the high and low GC-extreme window *)
(* counts together are > 5; 0.15 if the hairpin estimate is > 10. A value  *)
(* exactly on a strict threshold adds nothing, nor does a longest          *)
(* homopolymer of 5. Scores are in hundredths.                             *)
(***************************************************************************)
StatedGCPenalty ==
    LET gc == risk_args.gc_content
    IN  IF gc.num * 100 > 65 * gc.den \/ gc.num * 100 < 35 * gc.den THEN 15 ELSE 0
StatedHomopolymerPenalty ==
    LET m == risk_args.homopolymers.max_length
    IN  IF m >= 8 THEN 25 ELSE IF m >= 6 THEN 10 ELSE 0
StatedRepeatPenalty ==
    LET f == risk_args.repeats.fraction
    IN  IF f.num * 100 > 10 * f.den THEN 20
        ELSE IF f.num * 100 > 5 * f.den THEN 10 ELSE 0
StatedExtremePenalty ==
    IF risk_args.gc_extremes.high_gc_regions.val
         + risk_args.gc_extremes.low_gc_regions.val > 5 THEN 15 ELSE 0
StatedHairpinPenalty == IF risk_args.hairpins > 10 THEN 15 ELSE 0
StatedPenalties ==
    <<StatedGCPenalty, StatedHomopolymerPenalty, StatedRepeatPenalty,
      StatedExtremePenalty, StatedHairpinPenalty>>

RiskIsClampedSumOfTerms ==
    risk_pc = "done" =>
        risk_out.score = Min(100, Max(0, SumSeq(StatedPenalties)))

\* Every metric exactly on its (lowest) threshold, and the longest homopolymer 5:
\* the call returned and no term was added.
RiskIsClampedSumOfTermsWitness ==
    /\ risk_pc = "done"
    /\ risk_args.gc_content = Ratio(65, 100)
    /\ risk_args.homopolymers.max_length = 5
    /\ risk_args.repeats.fraction = Ratio(5, 100)
    /\ risk_args.gc_extremes.high_gc_regions = PyInt(2)
    /\ risk_args.gc_extremes.low_gc_regions = PyInt(3)
    /\ risk_args.hairpins = 10
    /\ risk_out.score = 0

(***************************************************************************)
(* C20  Each of the five categories adds at most one penalty and one       *)
(* reason: the reasons list has at most 5 entries, one for each penalty    *)
(* that fired (so the score is 0 exactly when there are no reasons), in    *)
(* the order GC content, homopolymer, repeat content, GC-extreme regions,  *)
(* hairpins.                                                               *)
(***************************************************************************)
ReasonCategory(label) ==
    CASE label \in {"High GC content", "Low GC content"} -> 1
      [] label \in {"Long homopolymer", "Moderate homopolymer"} -> 2
      [] label \in {"High repeat content", "Moderate repeat content"} -> 3
      [] label = "Many GC extreme regions" -> 4
      [] label = "Many potential hairpins" -> 5

OneReasonPerCategoryInOrder ==
    risk_pc = "done" =>
        LET reasons == risk_out.reasons
            fired == { c \in 1..5 : StatedPenalties[c] > 0 }
        IN  /\ Len(reasons) <= 5
            /\ \A k \in 1..(Len(reasons) - 1) :
                   ReasonCategory(reasons[k].label) < ReasonCategory(reasons[k + 1].label)
            /\ { ReasonCategory(reasons[k].label) : k \in 1..Len(reasons) } = fired
            /\ Len(reasons) = Cardinality(fired)
            /\ (risk_out.score = 0) <=> (reasons = <<>>)

\* All five categories fired.
OneReasonPerCategoryInOrderWitness ==
    /\ risk_pc = "done"
    /\ Len(risk_out.reasons) = 5
    /\ risk_args.homopolymers.max_length >= 8
    /\ risk_out.score = 90

(***************************************************************************)
(* C14  With force_reprocess set, every step redoes its work for every     *)
(* batch, whichever cache files of the batch exist: parse_batch re-parses, *)
(* annotate_batch re-annotates and pairs_batch regenerates the pairs.      *)
(***************************************************************************)
ForceReprocessRerunsAllSteps ==
    force_reprocess =>
        \A b \in DOMAIN flow_pc :
            /\ flow_pc[b] /= "parse_batch" => "parse_batch" \in ran[b]
            /\ flow_pc[b] \notin {"parse_batch", "annotate_batch"}
                  => "annotate_batch" \in ran[b]
            /\ flow_pc[b] \in {"join_batches", "split"} => "pairs_batch" \in ran[b]

(***************************************************************************)
(* C15  With a backbone-typed feature present, the insert regions are      *)
(* exactly the maximal runs of positions covered by no backbone-typed      *)
(* feature that are at least 300 long: each run is bounded by a covered    *)
(* position or an end of the sequence, every run of 300 or more is         *)
(* returned and no shorter one; each region has insert_type                *)
(* "gap_in_backbone" and confidence 0.7, and the result's confidence is    *)
(* 0.8 when a region is found.                                             *)
(***************************************************************************)
\* The maximal runs [a, b) of positions of [0, L) outside the set covered
MaximalUncoveredRuns(covered, L) ==
    LET uncovered == Range(0, L) \ covered
        starts == { a \in uncovered : a = 0 \/ (a - 1) \in covered }
        RunStop(a) == LET stops == (covered \cap Range(a, L)) \cup {L}
                      IN  CHOOSE b \in stops : \A o \in stops : b <= o
    IN  { <<a, RunStop(a)>> : a \in starts }

InsertRegionsAreLongUncoveredRuns ==
    (Returned /\ ~NoBackboneTyped(plasmid.pk_features)) =>
        LET regions == plasmid.insert_regions
            runs == MaximalUncoveredRuns(ClippedCoverage(plasmid.pk_features, SeqLen),
                                         SeqLen)
            long == { run \in runs : run[2] - run[1] >= 300 }
        IN  /\ { <<regions[k].start, regions[k].end>> : k \in 1..Len(regions) } = long
            /\ Len(regions) = Cardinality(long)
            /\ \A k \in 1..Len(regions) :
                   /\ regions[k].insert_type = "gap_in_backbone"
                   /\ regions[k].confidence = 7
                   /\ regions[k].length = regions[k].end - regions[k].start
            /\ Len(regions) >= 1 => plasmid.annotation_confidence = 8

\* A run of exactly 300 positions between two covered positions is returned
\* next to other regions.
InsertRegionsAreLongUncoveredRunsWitness ==
    /\ Returned
    /\ ~NoBackboneTyped(plasmid.pk_features)
    /\ Len(plasmid.insert_regions) = 3
    /\ \E k \in 1..3 : /\ plasmid.insert_regions[k].length = 300
                        /\ plasmid.insert_regions[k].start > 0
                        /\ plasmid.insert_regions[k].end < SeqLen
    /\ plasmid.annotation_confidence = 8

(***************************************************************************)
(* C16  The scan is linear: an uncovered run at the start of the sequence  *)
(* and one at the end are never joined across the end-to-start boundary.   *)
(* Each is compared with the 300-base minimum on its own: two boundary     *)
(* runs shorter than 300 give no region even when together they reach 300, *)
(* and two boundary runs of 300 or more give two separate regions.         *)
(***************************************************************************)
\* The non-empty intervals [max(0, start), min(L, end)) of the backbone-typed
\* features
ClippedIntervals(feats, L) ==
    { iv \in { <<Max(0, Get(feats[k], "start", 0)), Min(L, Get(feats[k], "end", 0))>>
                 : k \in { m \in 1..Len(feats) : IsBackboneTyped(feats[m]) } }
        : iv[1] < iv[2] }

\* The length of the uncovered run at the start of [0, L), and at its end, when
\* some position is covered: the positions before the first covered one, and
\* those after the last
LeadingRun(feats, L) ==
    LET firsts == { iv[1] : iv \in ClippedIntervals(feats, L) }
    IN  CHOOSE a \in firsts : \A o \in firsts : a <= o
TrailingRun(feats, L) ==
    LET lasts == { iv[2] : iv \in ClippedIntervals(feats, L) }
    IN  L - (CHOOSE a \in lasts : \A o \in lasts : o <= a)

BoundaryRunsNotJoined ==
    (Returned /\ ClippedIntervals(plasmid.pk_features, SeqLen) /= {}) =>
        LET regions == plasmid.insert_regions
            head == LeadingRun(plasmid.pk_features, SeqLen)
            tail == TrailingRun(plasmid.pk_features, SeqLen)
            AtStart == { k \in 1..Len(regions) : regions[k].start <= 0 }
            AtEnd == { k \in 1..Len(regions) : regions[k].end >= SeqLen }
        IN  /\ \A k \in 1..Len(regions) : regions[k].start < regions[k].end
            /\ AtStart \cap AtEnd = {}
            /\ (AtStart /= {}) <=> (head >= 300)
            /\ (AtEnd /= {}) <=> (tail >= 300)
            /\ \A k \in AtStart : regions[k].start = 0 /\ regions[k].end = head
            /\ \A k \in AtEnd :
                   regions[k].start = SeqLen - tail /\ regions[k].end = SeqLen

\* Two boundary runs shorter than 300 that together reach 300, and no region.
BoundaryRunsNotJoinedWitness ==
    /\ Returned /\ ClippedIntervals(plasmid.pk_features, SeqLen) /= {}
    /\ LeadingRun(plasmid.pk_features, SeqLen) \in 1..299
    /\ TrailingRun(plasmid.pk_features, SeqLen) \in 1..299
    /\ LeadingRun(plasmid.pk_features, SeqLen)
         + TrailingRun(plasmid.pk_features, SeqLen) >= 300
    /\ plasmid.insert_regions = <<>>

(***************************************************************************)
(* C17  With a backbone-typed feature present, the partitioner's output    *)
(* depends only on the set of positions covered by backbone-typed          *)
(* features: a reordered list, a duplicated feature, an added backbone     *)
(* feature inside covered positions, and added or removed features of      *)
(* other types leave the insert regions, the backbone regions and the      *)
(* masked sequence unchanged.                                              *)
(***************************************************************************)
OutputDependsOnCoverageOnly ==
    [][(/\ pc = "done"
        /\ pc' /= "done"
        /\ SameCoverage(plasmid.pk_features, plasmid'.pk_features, SeqLen))
       => /\ pc' = "redone"
          /\ plasmid'.insert_regions = plasmid.insert_regions
          /\ plasmid'.backbone_regions = plasmid.backbone_regions
          /\ plasmid'.annotated_sequence = plasmid.annotated_sequence]_vars

\* The second call was given an overlapping backbone feature more than the
\* first, and insert regions were found.
OutputDependsOnCoverageOnlyWitness ==
    /\ pc = "redone"
    /\ plasmid.insert_regions /= <<>>
    /\ \E k \in 1..Len(plasmid.pk_features) : \E m \in 1..Len(plasmid.pk_features) :
          /\ k /= m
          /\ IsBackboneTyped(plasmid.pk_features[k])
          /\ IsBackboneTyped(plasmid.pk_features[m])
          /\ plasmid.pk_features[k] /= plasmid.pk_features[m]
          /\ ClippedIntervals(<<plasmid.pk_features[k]>>, SeqLen) /= {}
          /\ ClippedCoverage(<<plasmid.pk_features[k]>>, SeqLen)
               \subseteq ClippedCoverage(<<plasmid.pk_features[m]>>, SeqLen)

(***************************************************************************)
(* C18  The backbone regions are the exact complement of the insert        *)
(* regions over [0, L): each has type "backbone" and length = end - start  *)
(* > 0, the list is sorted by start, two consecutive backbone regions are  *)
(* separated by an insert region, and a backbone region stands before the  *)
(* first insert, between two consecutive inserts and after the last one    *)
(* exactly when that gap is not empty.                                     *)
(***************************************************************************)
\* The gaps (a, b) the insert regions, in order of start, leave in [0, L)
GapsBetween(inserts, L) ==
    LET n == Len(inserts)
    IN  IF n = 0 THEN {<<0, L>>}
        ELSE {<<0, inserts[1].start>>}
             \cup { <<inserts[k].end, inserts[k + 1].start>> : k \in 1..(n - 1) }
             \cup {<<inserts[n].end, L>>}

BackboneIsExactComplement ==
    Returned =>
        LET inserts == plasmid.insert_regions
            backbone == plasmid.backbone_regions
            gaps == { g \in GapsBetween(inserts, SeqLen) : g[1] < g[2] }
        IN  /\ { <<backbone[k].start, backbone[k].end>> : k \in 1..Len(backbone) } = gaps
            /\ Len(backbone) = Cardinality(gaps)
            /\ \A k \in 1..Len(backbone) :
                   /\ backbone[k].type = "backbone"
                   /\ backbone[k].length = backbone[k].end - backbone[k].start
                   /\ backbone[k].length > 0
            /\ \A k \in 1..(Len(backbone) - 1) :
                   /\ backbone[k].end < backbone[k + 1].start
                   /\ \E m \in 1..Len(inserts) :
                          /\ inserts[m].start = backbone[k].end
                          /\ inserts[m].end = backbone[k + 1].start

\* Two insert regions, the second up to the end of the sequence: a backbone
\* region before the first insert and one between the two, none after.
BackboneIsExactComplementWitness ==
    /\ Returned
    /\ Len(plasmid.insert_regions) = 2
    /\ plasmid.insert_regions[1].start > 0
    /\ plasmid.insert_regions[2].end = SeqLen
    /\ Len(plasmid.backbone_regions) = 2

(***************************************************************************)
(* C19  The insert regions are numbered in descending order of start: the  *)
(* region with the greatest start becomes <INSERT_1>, the k-th greatest    *)
(* <INSERT_k>, so the tokens read n, n-1, ..., 1 from left to right; the   *)
(* text outside the insert regions is kept, in order and unchanged; with   *)
(* no insert region the masked sequence is the sequence.                   *)
(***************************************************************************)
\* The token of index k, 1 <= k <= 9, written out
StatedToken(k) ==
    <<"<", "I", "N", "S", "E", "R", "T", "_">>
    \o <<(<<"1", "2", "3", "4", "5", "6", "7", "8", "9">>)[k]>> \o <<">">>

\* The text from position cursor on, with the regions of inserts (ascending by
\* start) from the m-th on replaced by the tokens n + 1 - m, ..., 1
RECURSIVE MaskedFrom(_, _, _, _)
MaskedFrom(seq, inserts, m, cursor) ==
    IF m > Len(inserts) THEN SubSeq(seq, cursor + 1, Len(seq))
    ELSE SubSeq(seq, cursor + 1, inserts[m].start)
         \o StatedToken(Len(inserts) + 1 - m)
         \o MaskedFrom(seq, inserts, m + 1, inserts[m].end)

TokensNumberedDescending ==
    Returned =>
        /\ plasmid.annotated_sequence
             = MaskedFrom(record.sequence, plasmid.insert_regions, 1, 0)
        /\ plasmid.insert_regions = <<>> => plasmid.annotated_sequence = record.sequence

\* Three insert regions, the first from position 0: the masked sequence opens
\* with <INSERT_3> and closes with <INSERT_1>.
TokensNumberedDescendingWitness ==
    /\ Returned
    /\ Len(plasmid.insert_regions) = 3
    /\ SubSeq(plasmid.annotated_sequence, 1, 10) = StatedToken(3)
    /\ SubSeq(plasmid.annotated_sequence, Len(plasmid.annotated_sequence) - 9,
              Len(plasmid.annotated_sequence)) = StatedToken(1)

(***************************************************************************)
(* C21  find_homopolymers finds exactly the maximal runs of one base among *)
(* A/C/G/T of length >= 5 in the upper-cased sequence: the symbol before   *)
(* the run and the one after it differ from its base, and a symbol that is *)
(* no base never forms a run. max_length is the greatest run length (0 if  *)
(* none), count the number of runs, total_bases the sum of their lengths,  *)
(* and positions the first 20 runs in increasing order of start.           *)
(***************************************************************************)
\* The maximal runs <<start, end>> of one base of A/C/G/T in the text up, 0-based
\* with the end excluded
MaximalBaseRuns(up) ==
    LET n == Len(up)
        breaks == { b \in 1..(n - 1) : up[b] /= up[b + 1] } \cup {0, n}
        Following(a) == LET later == { b \in breaks : b > a }
                        IN  CHOOSE b \in later : \A o \in later : b <= o
    IN  { <<a, Following(a)>> : a \in { b \in breaks : b < n /\ up[b + 1] \in {"A", "C", "G", "T"} } }

RECURSIVE SumOfRunLengths(_)
SumOfRunLengths(runs) ==
    IF runs = {} THEN 0
    ELSE LET run == CHOOSE r \in runs : TRUE
         IN  (run[2] - run[1]) + SumOfRunLengths(runs \ {run})

HomopolymersAreLongMaximalRuns ==
    qc_pc = "measured" =>
        LET up == Upper(qc_sequence)
            found == qc_result.homopolymers
            long == { run \in MaximalBaseRuns(up) : run[2] - run[1] >= 5 }
            positions == found.positions
        IN  /\ found.count = Cardinality(long)
            /\ found.total_bases = SumOfRunLengths(long)
            /\ \A run \in long : run[2] - run[1] <= found.max_length
            /\ IF long = {} THEN found.max_length = 0
               ELSE \E run \in long : run[2] - run[1] = found.max_length
            /\ Len(positions) = Min(20, found.count)
            /\ \A k \in 1..Len(positions) :
                   /\ <<positions[k].start, positions[k].end>> \in long
                   /\ positions[k].base = up[positions[k].start + 1]
                   /\ positions[k].length = positions[k].end - positions[k].start
                   /\ Cardinality({ run \in long : run[1] < positions[k].start }) = k - 1

\* More than 20 runs, of two bases, one of them written in lower case.
HomopolymersAreLongMaximalRunsWitness ==
    /\ qc_pc = "measured"
    /\ qc_result.homopolymers.count > 20
    /\ Len(qc_result.homopolymers.positions) = 20
    /\ qc_result.homopolymers.positions[2].base = "T"
    /\ qc_result.homopolymers.max_length = 5

(***************************************************************************)
(* C22  Every tandem repeat find_tandem_repeats records has                *)
(* 2 <= unit_length <= 10, copies >= 3, end - start = total_length =       *)
(* copies * unit_length and end <= len(sequence); sequence[start:end] is   *)
(* the unit written copies times and the unit_length symbols after end are *)
(* not the unit; the repeats of one unit length do not overlap and come in *)
(* increasing order of start.                                              *)
(***************************************************************************)
\* The text unit written copies times
Copies(unit, copies) == [i \in 1..(Len(unit) * copies) |-> unit[((i - 1) % Len(unit)) + 1]]

TandemRepeatRecordsWellFormed ==
    qc_pc = "measured" =>
        LET up == Upper(qc_sequence)
            repeats == qc_result.tandem_repeats.repeats
        IN  /\ \A k \in 1..Len(repeats) :
                   LET r == repeats[k]
                   IN  /\ r.unit_length \in 2..10
                       /\ Len(r.unit) = r.unit_length
                       /\ r.copies >= 3
                       /\ r.end - r.start = r.total_length
                       /\ r.total_length = r.copies * r.unit_length
                       /\ r.start >= 0
                       /\ r.end <= Len(up)
                       /\ SubSeq(up, r.start + 1, r.end) = Copies(r.unit, r.copies)
                       /\ \/ r.end + r.unit_length > Len(up)
                          \/ SubSeq(up, r.end + 1, r.end + r.unit_length) /= r.unit
            /\ \A k \in 1..Len(repeats) : \A m \in (k + 1)..Len(repeats) :
                   repeats[k].unit_length = repeats[m].unit_length
                       => repeats[k].end <= repeats[m].start

\* Two repeats of one unit length apart from each other, the first not at the
\* start of the sequence, and a repeat of another unit length.
TandemRepeatRecordsWellFormedWitness ==
    /\ qc_pc = "measured"
    /\ LET repeats == qc_result.tandem_repeats.repeats
       IN  \E k \in 1..Len(repeats) : \E m \in 1..Len(repeats) : \E o \in 1..Len(repeats) :
              /\ repeats[k].unit_length = repeats[m].unit_length
              /\ repeats[k].start > 0
              /\ repeats[k].end < repeats[m].start
              /\ repeats[o].unit_length /= repeats[k].unit_length

(***************************************************************************)
(* C23  total_bases of the tandem repeats is the number of bases covered   *)
(* by repeats and fraction the fraction of the sequence covered: for every *)
(* sequence total_bases <= len(sequence) and 0 <= fraction <= 1; longest   *)
(* is the greatest total_length of a recorded repeat, 0 if there is none.  *)
(***************************************************************************)
RepeatCoverageWithinSequence ==
    qc_pc = "measured" =>
        LET found == qc_result.tandem_repeats
            lengths == { found.repeats[k].total_length : k \in 1..Len(found.repeats) }
        IN  /\ found.total_bases <= Len(qc_sequence)
            /\ found.fraction.num >= 0
            /\ found.fraction.num <= found.fraction.den
            /\ \A l \in lengths : l <= found.longest
            /\ found.count = 0 => found.longest = 0

(***************************************************************************)
(* C24  calculate_linguistic_complexity (k = 3) returns 0.0 for a sequence *)
(* shorter than 3, and otherwise the number of distinct substrings of      *)
(* length 3 made of A/C/G/T only, divided by min(64, length - 2): a window *)
(* with another symbol adds no k-mer but counts in the denominator. The    *)
(* result lies in [0, 1].                                                  *)
(***************************************************************************)
ComplexityIsDistinctTriplesOverWindows ==
    qc_pc = "measured" =>
        LET up == Upper(qc_sequence)
            n == Len(up)
            bases == {"A", "C", "G", "T"}
            triples == { <<up[i], up[i + 1], up[i + 2]>> : i \in 1..(n - 2) }
                       \cap (bases \X bases \X bases)
            windows == IF n - 2 < 64 THEN n - 2 ELSE 64
            lc == qc_result.linguistic_complexity
        IN  /\ lc.den > 0
            /\ 0 <= lc.num /\ lc.num <= lc.den
            /\ IF n < 3 THEN lc.num = 0
               ELSE lc.num * windows = Cardinality(triples) * lc.den

\* More than 66 symbols, some of them no base, and some k-mers found.
ComplexityIsDistinctTriplesOverWindowsWitness ==
    /\ qc_pc = "measured"
    /\ Len(qc_sequence) >= 66
    /\ \E i \in 1..Len(qc_sequence) : qc_sequence[i] = "N"
    /\ qc_result.linguistic_complexity.num > 0
    /\ qc_result.linguistic_complexity.den = 64

(***************************************************************************)
(* C25  For a sequence of at least 50 symbols find_gc_extremes examines    *)
(* the full 50-base windows starting at 0, 25, 50, ... up to length - 50.  *)
(* A window is high GC iff its GC fraction is > 0.70 and low GC iff it is  *)
(* < 0.30, never both, and exactly 0.70 or 0.30 is neither.  The two       *)
(* counts cover all such windows while the position lists hold at most the *)
(* first 10.  gc_range is the maximum minus the minimum GC fraction over   *)
(* the windows starting at multiples of 50 and is >= 0.                    *)
(***************************************************************************)
GCOfWindow(up, start) ==
    Cardinality({ p \in (start + 1)..(start + 50) : up[p] \in {"G", "C"} })

\* The at most 10 smallest members of a set of starts
FirstTen(starts) ==
    { i \in starts : Cardinality({ other \in starts : other < i }) < 10 }

StatedPositions(up, starts, positions) ==
    /\ Len(positions) = Cardinality(FirstTen(starts))
    /\ Len(positions) <= 10
    /\ { positions[k].start : k \in 1..Len(positions) } = FirstTen(starts)
    /\ \A k \in 1..Len(positions) :
          /\ positions[k].end = positions[k].start + 50
          /\ positions[k].gc.num * 50 = GCOfWindow(up, positions[k].start) * positions[k].gc.den
          /\ k > 1 => positions[k - 1].start < positions[k].start

GCExtremesAreThresholdedWindows ==
    (qc_pc = "measured" /\ Len(qc_sequence) >= 50) =>
        LET up == Upper(qc_sequence)
            n == Len(up)
            halves == { i \in 0..(n - 50) : i % 25 = 0 }
            fulls == { i \in 0..(n - 50) : i % 50 = 0 }
            high == { i \in halves : GCOfWindow(up, i) * 100 > 70 * 50 }
            low == { i \in halves : GCOfWindow(up, i) * 100 < 30 * 50 }
            most == CHOOSE i \in fulls : \A o \in fulls : GCOfWindow(up, o) <= GCOfWindow(up, i)
            least == CHOOSE i \in fulls : \A o \in fulls : GCOfWindow(up, o) >= GCOfWindow(up, i)
            ge == qc_result.gc_extremes
        IN  /\ high \cap low = {}
            /\ ge.high_gc_regions = PyInt(Cardinality(high))
            /\ ge.low_gc_regions = PyInt(Cardinality(low))
            /\ StatedPositions(up, high, ge.high_gc_positions)
            /\ StatedPositions(up, low, ge.low_gc_positions)
            /\ ge.gc_range.num >= 0 /\ ge.gc_range.den > 0
            /\ ge.gc_range.num * 50
                 = (GCOfWindow(up, most) - GCOfWindow(up, least)) * ge.gc_range.den

\* Eleven windows, more than ten of them high GC, some window exactly at a
\* threshold or between the two, and a positive range.
GCExtremesAreThresholdedWindowsWitness ==
    /\ qc_pc = "measured"
    /\ Len(qc_sequence) = 300
    /\ qc_result.gc_extremes.high_gc_regions.val + qc_result.gc_extremes.low_gc_regions.val
         \in 1..10
    /\ qc_result.gc_extremes.gc_range.num > 0

\* More high GC windows than the position list holds
MoreWindowsThanPositions ==
    /\ qc_pc = "measured"
    /\ qc_result.gc_extremes.high_gc_regions = PyInt(11)
    /\ Len(qc_result.gc_extremes.high_gc_positions) = 10

(***************************************************************************)
(* C26  find_hairpins returns the number of start positions i for which    *)
(* some loop length l in 3..8 has i + 12 + l <= len(sequence) and          *)
(* sequence[i+6+l : i+12+l] equal to the reverse complement of the stem    *)
(* sequence[i : i+6].  Every start where stem, loop and downstream window  *)
(* fit is examined, i = len - 15 included, and a start counts once however *)
(* many loop lengths match.                                                *)
(***************************************************************************)
\* Pairing of the symbols of an upper-cased sequence (N pairs with N)
Pairs(b) ==
    CASE b = "A" -> "T" [] b = "T" -> "A" [] b = "G" -> "C" [] b = "C" -> "G"
      [] OTHER -> b

\* The window after a loop of l symbols is the reverse complement of the stem at i
StemPairsAfterLoop(up, i, l) ==
    /\ i + 12 + l <= Len(up)
    /\ \A k \in 1..6 : up[i + 6 + l + k] = Pairs(up[i + 7 - k])

HairpinStarts(up, last) ==
    { i \in 0..last : \E l \in 3..8 : StemPairsAfterLoop(up, i, l) }

HairpinsCountEveryFittingStart ==
    qc_pc = "measured" =>
        qc_result.hairpin_estimate
          = Cardinality(HairpinStarts(Upper(qc_sequence), Len(qc_sequence) - 15))

\* What the loop bound of the code gives: the starts up to len - 16
HairpinsCountStartsBeforeLast ==
    qc_pc = "measured" =>
        qc_result.hairpin_estimate
          = Cardinality(HairpinStarts(Upper(qc_sequence), Len(qc_sequence) - 16))

\* A hairpin with loop 3 that ends at the last base, and is not counted
HairpinAtLastStartMissed ==
    /\ qc_pc = "measured"
    /\ Len(qc_sequence) = 15
    /\ StemPairsAfterLoop(Upper(qc_sequence), 0, 3)
    /\ qc_result.hairpin_estimate = 0

(***************************************************************************)
(* C27  The clamp of calculate_synthesis_risk is never active: the sum of  *)
(* the penalties is one of finitely many values between 0 and 0.90         *)
(* (0.15 + 0.25 + 0.20 + 0.15 + 0.15), so synthesis_risk never reaches 1.0 *)
(* and equals the plain sum of the penalties that fired.                   *)
(***************************************************************************)
\* The sums of one choice per category, in hundredths
PossibleSums ==
    { gc + hp + rp + ex + ha : gc \in {0, 15}, hp \in {0, 10, 25}, rp \in {0, 10, 20},
                               ex \in {0, 15}, ha \in {0, 15} }

ClampNeverActive ==
    risk_pc = "done" =>
        /\ risk_out.score = SumSeq(StatedPenalties)
        /\ risk_out.score \in PossibleSums
        /\ risk_out.score >= 0 /\ risk_out.score <= 90
        /\ risk_out.score < 100

\* The largest penalty of every category at once: the sum is 0.90, unclamped.
ClampNeverActiveWitness ==
    /\ risk_pc = "done"
    /\ risk_args.gc_content = Ratio(34, 100)
    /\ risk_args.homopolymers.max_length = 9
    /\ risk_args.repeats.fraction = Ratio(11, 100)
    /\ risk_args.hairpins = 11
    /\ StatedExtremePenalty = 15
    /\ risk_out.score = 90

(***************************************************************************)
(* C28  When a backbone-typed feature is present in a non-empty sequence   *)
(* but no uncovered run reaches 300 bases, the insert list is empty, the   *)
(* confidence is 0.8 and the method "plasmid_kit_gap", so the record has   *)
(* has_identifiable_insert = false and annotation_confidence = 0.8.        *)
(* Confidence 0.0 is returned only for an empty sequence or an absent      *)
(* backbone.                                                               *)
(***************************************************************************)
NoLongUncoveredRun(feats, L) ==
    \A run \in MaximalUncoveredRuns(ClippedCoverage(feats, L), L) : run[2] - run[1] < 300

BackboneWithoutGapKeepsConfidence ==
    Returned =>
        /\ (/\ ~NoBackboneTyped(plasmid.pk_features)
             /\ SeqLen > 0
             /\ NoLongUncoveredRun(plasmid.pk_features, SeqLen))
            => /\ plasmid.insert_regions = <<>>
               /\ plasmid.annotation_confidence = 8
               /\ plasmid.insert_detection_method = "plasmid_kit_gap"
               /\ plasmid.has_identifiable_insert = FALSE
        /\ plasmid.annotation_confidence = 0
             <=> (SeqLen = 0 \/ NoBackboneTyped(plasmid.pk_features))

\* Two uncovered runs of 250 bases around a promoter: no region, confidence 0.8.
BackboneWithoutGapKeepsConfidenceWitness ==
    /\ Returned
    /\ SeqLen = 650
    /\ ~NoBackboneTyped(plasmid.pk_features)
    /\ <<0, 250>> \in MaximalUncoveredRuns(ClippedCoverage(plasmid.pk_features, SeqLen),
                                           SeqLen)
    /\ NoLongUncoveredRun(plasmid.pk_features, SeqLen)
    /\ plasmid.insert_regions = <<>>
    /\ plasmid.has_identifiable_insert = FALSE
    /\ plasmid.annotation_confidence = 8

(***************************************************************************)
(* C29  If backbone-typed features are present but none covers a position  *)
(* after clipping (each has start >= end or lies outside [0, L)), and      *)
(* L >= 300, the partitioner reports the whole sequence as one insert      *)
(* region [0, L) with method "plasmid_kit_gap", the backbone region list   *)
(* is empty and the masked sequence is the single token <INSERT_1>.        *)
(***************************************************************************)
UncoveringBackboneGivesWholeInsert ==
    (/\ Returned
     /\ ~NoBackboneTyped(plasmid.pk_features)
     /\ ClippedIntervals(plasmid.pk_features, SeqLen) = {}
     /\ SeqLen >= 300)
    => /\ Len(plasmid.insert_regions) = 1
       /\ plasmid.insert_regions[1].start = 0
       /\ plasmid.insert_regions[1].end = SeqLen
       /\ plasmid.insert_detection_method = "plasmid_kit_gap"
       /\ plasmid.backbone_regions = <<>>
       /\ plasmid.annotated_sequence = StatedToken(1)

\* An inverted feature and one past the end of a 1000-base sequence
UncoveringBackboneGivesWholeInsertWitness ==
    /\ Returned
    /\ SeqLen = 1000
    /\ \E k \in 1..Len(plasmid.pk_features) :
          /\ IsBackboneTyped(plasmid.pk_features[k])
          /\ Get(plasmid.pk_features[k], "start", 0) >= SeqLen
    /\ \E k \in 1..Len(plasmid.pk_features) :
          /\ IsBackboneTyped(plasmid.pk_features[k])
          /\ Get(plasmid.pk_features[k], "start", 0) \in 1..(SeqLen - 1)
          /\ Get(plasmid.pk_features[k], "start", 0) >= Get(plasmid.pk_features[k], "end", 0)
    /\ ClippedIntervals(plasmid.pk_features, SeqLen) = {}
    /\ Len(plasmid.insert_regions) = 1
    /\ plasmid.annotated_sequence = StatedToken(1)

(***************************************************************************)
(* C30  training.create_backbone_sequence and                              *)
(* annotators.create_annotated_sequence, given the same sequence and the   *)
(* same insert regions, produce the same masked string only when there are *)
(* no insert regions.  With one region the former emits <INSERT> where the *)
(* latter emits <INSERT_1>; with n >= 2 regions the former numbers the     *)
(* tokens in ascending order of start (the leftmost region is <INSERT_1>)  *)
(* and the latter in descending order (the leftmost is <INSERT_n>).        *)
(***************************************************************************)
PairMade == pc \in {"paired", "dropped"}

\* The text from position cursor on, with the regions of inserts (ascending by
\* start) from the m-th on replaced by <INSERT> when there is one region and by
\* <INSERT_m>, <INSERT_m+1>, ... otherwise
RECURSIVE BackboneMaskedFrom(_, _, _, _)
BackboneMaskedFrom(seq, inserts, m, cursor) ==
    IF m > Len(inserts) THEN SubSeq(seq, cursor + 1, Len(seq))
    ELSE SubSeq(seq, cursor + 1, inserts[m].start)
         \o (IF Len(inserts) = 1
             THEN <<"<", "I", "N", "S", "E", "R", "T", ">">>
             ELSE StatedToken(m))
         \o BackboneMaskedFrom(seq, inserts, m + 1, inserts[m].end)

MaskedStringsAgreeOnlyWithoutInserts ==
    PairMade =>
        LET inserts == plasmid.insert_regions
            seq == plasmid.sequence
        IN  /\ (backbone_sequence = plasmid.annotated_sequence) <=> (inserts = <<>>)
            /\ backbone_sequence = BackboneMaskedFrom(seq, inserts, 1, 0)
            /\ plasmid.annotated_sequence = MaskedFrom(seq, inserts, 1, 0)

\* Two insert regions, the first from position 0: the backbone sequence opens with
\* <INSERT_1> where the masked sequence of the annotators opens with <INSERT_2>.
MaskedStringsAgreeOnlyWithoutInsertsWitness ==
    /\ PairMade
    /\ Len(plasmid.insert_regions) = 2
    /\ plasmid.insert_regions[1].start = 0
    /\ SubSeq(backbone_sequence, 1, 10) = StatedToken(1)
    /\ SubSeq(plasmid.annotated_sequence, 1, 10) = StatedToken(2)

\* One insert region: <INSERT> against <INSERT_1>
UnnumberedTokenForOneInsert ==
    /\ PairMade
    /\ Len(plasmid.insert_regions) = 1
    /\ plasmid.insert_regions[1].start = 0
    /\ SubSeq(backbone_sequence, 1, 8) = <<"<", "I", "N", "S", "E", "R", "T", ">">>
    /\ SubSeq(plasmid.annotated_sequence, 1, 10) = StatedToken(1)

====
